---- MODULE Spec2Model ----
(***************************************************************************)
(* The asynchronous edit pipeline of the legal document editor: the job    *)
(* table, the HTTP handlers that create and delete rows, the Celery task   *)
(* process_edit_instruction step by step, and the patch builder it calls.  *)
(***************************************************************************)
EXTENDS Integers, Sequences, FiniteSets, TLC

\* ------------------------------------------------------------------ bounds
MaxJobs == 1        \* job rows ever created (ids 1..MaxJobs, autoincrement)
MaxDocs == 1        \* document rows ever created
MaxWorkers == 2     \* Celery worker processes
MaxInvokes == 1     \* direct run(job_id) dispatches besides those of submit
MaxQueue == 2       \* task messages waiting in the broker
MaxTime == 1        \* readings of datetime.utcnow()
MaxVersions == 3    \* version rows of one document
MaxReviewed == 2    \* job rows present when the patch routes are called
NumParagraphs == 2  \* paragraphs of the parsed document (ids 0..n-1)
MaxLen == 2         \* characters of a text handed to the patch engine
MaxBatch == 2       \* patches of one batch handed to a validator or applier
MaxCalls == 1         \* calls made on one PatchApplier
MaxApplies == 2       \* apply_patch requests under way at once

Requests == 1..MaxApplies
JobIds == 1..MaxJobs
RunIds == 1..(MaxJobs + 1)   \* a task can be sent for an id no row ever had
DocIds == 1..MaxDocs
Workers == 1..MaxWorkers

\* ------------------------------------------------------- optional columns
Null == <<>>
Some(x) == <<x>>

\* ------------------------------------------------------------ JobStatus
PENDING == "pending"
PROCESSING == "processing"
COMPLETED == "completed"
FAILED == "failed"
JobStatus == {PENDING, PROCESSING, COMPLETED, FAILED}
Terminal == {COMPLETED, FAILED}

\* --------------------------------------------- JSON values of edit texts
\* The oracle's answer is parsed JSON: original_text / replacement_text are
\* strings when the LLM follows the prompt, but _validate_edits only checks
\* that the keys are present, so null and false can arrive too.
Chars == {"a", "b"}
JStr(s) == [ty |-> "str", s |-> s]
JNull == [ty |-> "null", s |-> <<>>]
JFalse == [ty |-> "false", s |-> <<>>]

\* ------------------------------------------------- diff-match-patch diff
DIFF_DELETE == -1
DIFF_EQUAL == 0
DIFF_INSERT == 1

RECURSIVE diff_commonPrefix(_, _)
diff_commonPrefix(t1, t2) ==
  IF t1 = <<>> \/ t2 = <<>> \/ Head(t1) # Head(t2) THEN 0
  ELSE 1 + diff_commonPrefix(Tail(t1), Tail(t2))

RECURSIVE diff_commonSuffix(_, _)
diff_commonSuffix(t1, t2) ==
  IF t1 = <<>> \/ t2 = <<>> \/ t1[Len(t1)] # t2[Len(t2)] THEN 0
  ELSE 1 + diff_commonSuffix(SubSeq(t1, 1, Len(t1) - 1), SubSeq(t2, 1, Len(t2) - 1))

\* Python evaluates the arguments of a call and the right-hand side of an
\* assignment once, before the body or the next statement runs: F on the
\* values of its arguments
Strict(v, F(_)) == CHOOSE r \in {F(x) : x \in {v}} : TRUE
Strict2(v, w, F(_, _)) == CHOOSE r \in {F(x, y) : x \in {v}, y \in {w}} : TRUE
Strict3(u, v, w, F(_, _, _)) ==
  CHOOSE r \in {F(x, y, z) : x \in {u}, y \in {v}, z \in {w}} : TRUE
Strict4(t, u, v, w, F(_, _, _, _)) ==
  CHOOSE r \in {F(a, x, y, z) : a \in {t}, x \in {u}, y \in {v}, z \in {w}} : TRUE

\* Python list and string operations, positions counted from 0
Take(seq, n) == SubSeq(seq, 1, n)
Drop(seq, n) == SubSeq(seq, n + 1, Len(seq))
TakeLast(seq, n) == SubSeq(seq, Len(seq) - n + 1, Len(seq))
DropLast(seq, n) == SubSeq(seq, 1, Len(seq) - n)
ListSet(seq, i, x) == [seq EXCEPT ![i + 1] = x]
ListInsert(seq, i, x) == Take(seq, i) \o <<x>> \o Drop(seq, i)
ListDel(seq, i) == Take(seq, i) \o Drop(seq, i + 1)
ListSplice(seq, i, n, new) == Take(seq, i) \o new \o Drop(seq, i + n)
StartsWith(text, prefix) ==
  Len(prefix) <= Len(text) /\ Take(text, Len(prefix)) = prefix
EndsWith(text, suffix) ==
  Len(suffix) <= Len(text) /\ TakeLast(text, Len(suffix)) = suffix

\* diff_cleanupMerge, the branch taken at an equality (or at the end marker):
\* the run of deletions and insertions before it is merged into at most one
\* deletion and one insertion, their common prefix and suffix moved into the
\* equalities around them
merge_equality(st) ==
  LET D == st.diffs
      p == st.pointer
      cd == st.count_delete
      ci == st.count_insert
      reset == [count_delete |-> 0, count_insert |-> 0,
                text_delete |-> <<>>, text_insert |-> <<>>]
  IN IF cd + ci > 1
       THEN LET both == cd # 0 /\ ci # 0
                cl1 == IF both THEN diff_commonPrefix(st.text_insert, st.text_delete) ELSE 0
                x == p - cd - ci - 1
                toEq == x >= 0 /\ D[x + 1][1] = DIFF_EQUAL
                D1 == IF cl1 = 0 THEN D
                      ELSE IF toEq
                        THEN ListSet(D, x, <<D[x + 1][1], D[x + 1][2] \o Take(st.text_insert, cl1)>>)
                        ELSE ListInsert(D, 0, <<DIFF_EQUAL, Take(st.text_insert, cl1)>>)
                p1 == IF cl1 # 0 /\ ~toEq THEN p + 1 ELSE p
                ti1 == Drop(st.text_insert, cl1)
                td1 == Drop(st.text_delete, cl1)
                cl2 == IF both THEN diff_commonSuffix(ti1, td1) ELSE 0
                D2 == IF cl2 = 0 THEN D1
                      ELSE ListSet(D1, p1, <<D1[p1 + 1][1], TakeLast(ti1, cl2) \o D1[p1 + 1][2]>>)
                ti2 == DropLast(ti1, cl2)
                td2 == DropLast(td1, cl2)
                new_ops == (IF td2 # <<>> THEN << <<DIFF_DELETE, td2>> >> ELSE <<>>)
                           \o (IF ti2 # <<>> THEN << <<DIFF_INSERT, ti2>> >> ELSE <<>>)
                p2 == p1 - cd - ci
            IN [diffs |-> ListSplice(D2, p2, cd + ci, new_ops),
                pointer |-> p2 + Len(new_ops) + 1] @@ reset
     ELSE IF p # 0 /\ D[p][1] = DIFF_EQUAL
       THEN [diffs |-> ListDel(ListSet(D, p - 1, <<D[p][1], D[p][2] \o D[p + 1][2]>>), p),
             pointer |-> p] @@ reset
     ELSE [diffs |-> D, pointer |-> p + 1] @@ reset

\* diff_cleanupMerge, first loop
RECURSIVE merge_scan(_)
merge_scan(state) ==
  Strict(state, LAMBDA st :
    IF st.pointer >= Len(st.diffs) THEN st.diffs
    ELSE LET d == st.diffs[st.pointer + 1]
         IN IF d[1] = DIFF_INSERT
              THEN merge_scan([st EXCEPT !.count_insert = @ + 1,
                                         !.text_insert = @ \o d[2],
                                         !.pointer = @ + 1])
            ELSE IF d[1] = DIFF_DELETE
              THEN merge_scan([st EXCEPT !.count_delete = @ + 1,
                                         !.text_delete = @ \o d[2],
                                         !.pointer = @ + 1])
            ELSE merge_scan(merge_equality(st)))

\* diff_cleanupMerge, second loop: a single edit between two equalities is
\* slid over the equality it ends or starts with
RECURSIVE merge_shift(_, _, _)
merge_shift(diffs, at, changed) ==
  Strict3(diffs, at, changed, LAMBDA D, pointer, changes :
    IF pointer >= Len(D) - 1 THEN [diffs |-> D, changes |-> changes]
    ELSE IF D[pointer][1] = DIFF_EQUAL /\ D[pointer + 2][1] = DIFF_EQUAL
      THEN LET prev == D[pointer][2]
               cur == D[pointer + 1]
               next == D[pointer + 2]
           IN IF EndsWith(cur[2], prev)
                THEN LET D1 == IF prev # <<>>
                                 THEN ListSet(ListSet(D, pointer,
                                                <<cur[1], prev \o DropLast(cur[2], Len(prev))>>),
                                              pointer + 1, <<next[1], prev \o next[2]>>)
                                 ELSE D
                     IN merge_shift(ListDel(D1, pointer - 1), pointer + 1, TRUE)
              ELSE IF StartsWith(cur[2], next[2])
                THEN merge_shift(
                       ListDel(ListSet(ListSet(D, pointer - 1, <<DIFF_EQUAL, prev \o next[2]>>),
                                       pointer, <<cur[1], Drop(cur[2], Len(next[2])) \o next[2]>>),
                               pointer + 1),
                       pointer + 1, TRUE)
              ELSE merge_shift(D, pointer + 1, changes)
    ELSE merge_shift(D, pointer + 1, changes))

\* diff_match_patch.diff_cleanupMerge
RECURSIVE diff_cleanupMerge(_)
diff_cleanupMerge(diffs) ==
  Strict(merge_scan([diffs |-> Append(diffs, <<DIFF_EQUAL, <<>>>>), pointer |-> 0,
                     count_delete |-> 0, count_insert |-> 0,
                     text_delete |-> <<>>, text_insert |-> <<>>]),
         LAMBDA scanned :
    Strict(merge_shift(IF scanned[Len(scanned)][2] = <<>>
                         THEN DropLast(scanned, 1) ELSE scanned, 1, FALSE),
           LAMBDA shifted :
      IF shifted.changes THEN diff_cleanupMerge(shifted.diffs) ELSE shifted.diffs))

\* first index (0-based) of short inside long, -1 when absent: str.find
Find(long, short) ==
  LET hits == {i \in 0..(Len(long) - Len(short)) :
                  SubSeq(long, i + 1, i + Len(short)) = short}
  IN IF hits = {} THEN -1 ELSE CHOOSE i \in hits : \A k \in hits : i <= k

\* diff_bisect, the two loops that follow a diagonal while the texts agree
RECURSIVE snake_forward(_, _, _, _)
snake_forward(t1, t2, x, y) ==
  IF x < Len(t1) /\ y < Len(t2) /\ t1[x + 1] = t2[y + 1]
    THEN snake_forward(t1, t2, x + 1, y + 1) ELSE x

RECURSIVE snake_reverse(_, _, _, _)
snake_reverse(t1, t2, x, y) ==
  IF x < Len(t1) /\ y < Len(t2) /\ t1[Len(t1) - x] = t2[Len(t2) - y]
    THEN snake_reverse(t1, t2, x + 1, y + 1) ELSE x

\* diff_bisect: max_d, the offset of diagonal 0 in v1 and v2, and their length
bisect_max_d(t1, t2) == (Len(t1) + Len(t2) + 1) \div 2

\* diff_bisect, "walk the front path one step": the loop over k1, which ends
\* before stop or when the paths overlap
RECURSIVE bisect_forward(_, _, _, _, _, _)
bisect_forward(state, t1, t2, d, k, end) ==
  Strict3(state, k, end, LAMBDA st, k1, stop :
    IF st.found \/ k1 >= stop THEN st
    ELSE LET v_offset == bisect_max_d(t1, t2)
             v_length == 2 * bisect_max_d(t1, t2)
             delta == Len(t1) - Len(t2)
             front == (Len(t1) + Len(t2)) % 2 # 0
             k1_offset == v_offset + k1
             x0 == IF k1 = -d THEN st.v1[k1_offset + 1]
                   ELSE IF k1 # d /\ st.v1[k1_offset - 1] < st.v1[k1_offset + 1]
                     THEN st.v1[k1_offset + 1]
                   ELSE st.v1[k1_offset - 1] + 1
             x1 == snake_forward(t1, t2, x0, x0 - k1)
             y1 == x1 - k1
             st1 == [st EXCEPT !.v1[k1_offset] = x1]
             k2_offset == v_offset + delta - k1
         IN IF x1 > Len(t1)
              THEN bisect_forward([st1 EXCEPT !.k1end = @ + 2], t1, t2, d, k1 + 2, stop)
            ELSE IF y1 > Len(t2)
              THEN bisect_forward([st1 EXCEPT !.k1start = @ + 2], t1, t2, d, k1 + 2, stop)
            ELSE IF front /\ k2_offset >= 0 /\ k2_offset < v_length
                    /\ st1.v2[k2_offset] # -1 /\ x1 >= Len(t1) - st1.v2[k2_offset]
              THEN [st1 EXCEPT !.found = TRUE, !.x = x1, !.y = y1]
            ELSE bisect_forward(st1, t1, t2, d, k1 + 2, stop))

\* diff_bisect, "walk the reverse path one step": the loop over k2
RECURSIVE bisect_reverse(_, _, _, _, _, _)
bisect_reverse(state, t1, t2, d, k, end) ==
  Strict3(state, k, end, LAMBDA st, k2, stop :
    IF st.found \/ k2 >= stop THEN st
    ELSE LET v_offset == bisect_max_d(t1, t2)
             v_length == 2 * bisect_max_d(t1, t2)
             delta == Len(t1) - Len(t2)
             front == (Len(t1) + Len(t2)) % 2 # 0
             k2_offset == v_offset + k2
             x0 == IF k2 = -d THEN st.v2[k2_offset + 1]
                   ELSE IF k2 # d /\ st.v2[k2_offset - 1] < st.v2[k2_offset + 1]
                     THEN st.v2[k2_offset + 1]
                   ELSE st.v2[k2_offset - 1] + 1
             x2 == snake_reverse(t1, t2, x0, x0 - k2)
             y2 == x2 - k2
             st1 == [st EXCEPT !.v2[k2_offset] = x2]
             k1_offset == v_offset + delta - k2
         IN IF x2 > Len(t1)
              THEN bisect_reverse([st1 EXCEPT !.k2end = @ + 2], t1, t2, d, k2 + 2, stop)
            ELSE IF y2 > Len(t2)
              THEN bisect_reverse([st1 EXCEPT !.k2start = @ + 2], t1, t2, d, k2 + 2, stop)
            ELSE IF ~front /\ k1_offset >= 0 /\ k1_offset < v_length
                    /\ st1.v1[k1_offset] # -1 /\ st1.v1[k1_offset] >= Len(t1) - x2
              THEN [st1 EXCEPT !.found = TRUE, !.x = st1.v1[k1_offset],
                               !.y = v_offset + st1.v1[k1_offset] - k1_offset]
            ELSE bisect_reverse(st1, t1, t2, d, k2 + 2, stop))

\* diff_bisect, the loop over d.  The bounds of both inner ranges are read
\* when the inner loop starts.
RECURSIVE bisect_search(_, _, _, _)
bisect_search(state, a, b, depth) ==
  Strict4(state, a, b, depth, LAMBDA st, t1, t2, d :
    IF d >= bisect_max_d(t1, t2) THEN st
    ELSE Strict(bisect_forward(st, t1, t2, d, -d + st.k1start, d + 1 - st.k1end),
                LAMBDA st1 :
           IF st1.found THEN st1
           ELSE Strict(bisect_reverse(st1, t1, t2, d, -d + st1.k2start,
                                      d + 1 - st1.k2end),
                       LAMBDA st2 :
                  IF st2.found THEN st2 ELSE bisect_search(st2, t1, t2, d + 1))))

\* diff_bisect: where the two paths meet, if they do.  The deadline of
\* Diff_Timeout = 2.0 seconds is never reached on texts of a few characters.
bisect_meet(t1, t2) ==
  LET v_length == 2 * bisect_max_d(t1, t2)
      v == [i \in 0..(v_length - 1) |-> IF i = bisect_max_d(t1, t2) + 1 THEN 0 ELSE -1]
  IN bisect_search([v1 |-> v, v2 |-> v, k1start |-> 0, k1end |-> 0,
                    k2start |-> 0, k2end |-> 0, found |-> FALSE, x |-> 0, y |-> 0],
                   t1, t2, 0)

RECURSIVE diff_main(_, _)

\* diff_bisect and diff_bisectSplit
diff_bisect(t1, t2) ==
  Strict(bisect_meet(t1, t2), LAMBDA meet :
    IF meet.found
      THEN diff_main(Take(t1, meet.x), Take(t2, meet.y))
           \o diff_main(Drop(t1, meet.x), Drop(t2, meet.y))
      ELSE << <<DIFF_DELETE, t1>>, <<DIFF_INSERT, t2>> >>)

\* diff_compute on texts without common prefix or suffix.  diff_halfMatch is
\* left out: it returns None for a longer text of fewer than 4 characters.
diff_compute(a, b) ==
  Strict2(a, b, LAMBDA t1, t2 :
    IF t1 = <<>> THEN << <<DIFF_INSERT, t2>> >>
    ELSE IF t2 = <<>> THEN << <<DIFF_DELETE, t1>> >>
    ELSE LET long == IF Len(t1) > Len(t2) THEN t1 ELSE t2
             short == IF Len(t1) > Len(t2) THEN t2 ELSE t1
             i == Find(long, short)
             op == IF Len(t1) > Len(t2) THEN DIFF_DELETE ELSE DIFF_INSERT
         IN IF i # -1
              THEN << <<op, Take(long, i)>>, <<DIFF_EQUAL, short>>,
                      <<op, Drop(long, i + Len(short))>> >>
            ELSE IF Len(short) = 1
              THEN << <<DIFF_DELETE, t1>>, <<DIFF_INSERT, t2>> >>
            ELSE diff_bisect(t1, t2))

\* diff_match_patch.diff_main on two strings
diff_main(a, b) ==
  Strict2(a, b, LAMBDA text1, text2 :
    IF text1 = text2
      THEN (IF text1 # <<>> THEN << <<DIFF_EQUAL, text1>> >> ELSE <<>>)
      ELSE LET p == diff_commonPrefix(text1, text2)
               commonprefix == Take(text1, p)
               a1 == Drop(text1, p)
               b1 == Drop(text2, p)
               s == diff_commonSuffix(a1, b1)
               commonsuffix == TakeLast(a1, s)
               a2 == DropLast(a1, s)
               b2 == DropLast(b1, s)
           IN diff_cleanupMerge(
                (IF commonprefix # <<>> THEN << <<DIFF_EQUAL, commonprefix>> >> ELSE <<>>)
                \o diff_compute(a2, b2)
                \o (IF commonsuffix # <<>> THEN << <<DIFF_EQUAL, commonsuffix>> >> ELSE <<>>)))

\* longest suffix of t1 that is a prefix of t2
diff_commonOverlap(t1, t2) ==
  LET ks == {k \in 0..(IF Len(t1) < Len(t2) THEN Len(t1) ELSE Len(t2)) :
                SubSeq(t1, Len(t1) - k + 1, Len(t1)) = SubSeq(t2, 1, k)}
  IN CHOOSE k \in ks : \A m \in ks : m <= k

Max(a, b) == IF a > b THEN a ELSE b

\* diff_cleanupSemantic, first loop: an equality no longer than the edits on
\* both of its sides becomes a deletion and an insertion.  equalities is the
\* stack of positions, lastEquality is empty where the code has None.
RECURSIVE semantic_scan(_)
semantic_scan(state) ==
  Strict(state, LAMBDA st :
    IF st.pointer >= Len(st.diffs) THEN st
    ELSE LET d == st.diffs[st.pointer + 1]
         IN IF d[1] = DIFF_EQUAL
              THEN semantic_scan([st EXCEPT !.equalities = Append(@, st.pointer),
                                            !.length_insertions1 = st.length_insertions2,
                                            !.length_deletions1 = st.length_deletions2,
                                            !.length_insertions2 = 0,
                                            !.length_deletions2 = 0,
                                            !.lastEquality = d[2],
                                            !.pointer = @ + 1])
            ELSE LET li2 == IF d[1] = DIFF_INSERT THEN st.length_insertions2 + Len(d[2])
                            ELSE st.length_insertions2
                     ld2 == IF d[1] = DIFF_INSERT THEN st.length_deletions2
                            ELSE st.length_deletions2 + Len(d[2])
                     last == st.lastEquality
                 IN IF /\ last # <<>>
                       /\ Len(last) <= Max(st.length_insertions1, st.length_deletions1)
                       /\ Len(last) <= Max(li2, ld2)
                      THEN LET e == st.equalities[Len(st.equalities)]
                               D1 == ListInsert(st.diffs, e, <<DIFF_DELETE, last>>)
                               D2 == ListSet(D1, e + 1, <<DIFF_INSERT, D1[e + 2][2]>>)
                               eq1 == DropLast(st.equalities, 1)
                               eq2 == IF eq1 # <<>> THEN DropLast(eq1, 1) ELSE eq1
                           IN semantic_scan(
                                [diffs |-> D2,
                                 pointer |-> (IF eq2 # <<>> THEN eq2[Len(eq2)] ELSE -1) + 1,
                                 equalities |-> eq2, lastEquality |-> <<>>,
                                 length_insertions1 |-> 0, length_deletions1 |-> 0,
                                 length_insertions2 |-> 0, length_deletions2 |-> 0,
                                 changes |-> TRUE])
                    ELSE semantic_scan([st EXCEPT !.length_insertions2 = li2,
                                                  !.length_deletions2 = ld2,
                                                  !.pointer = @ + 1]))

\* diff_cleanupSemanticScore on texts made of letters: 6 at an edge, else 0
diff_cleanupSemanticScore(one, two) ==
  IF one = <<>> \/ two = <<>> THEN 6 ELSE 0

\* diff_cleanupSemanticLossless, the loop that steps the edit to the right
\* and keeps the best score (the later one on a tie)
RECURSIVE lossless_slide(_, _, _, _)
lossless_slide(e1_, edit_, e2_, best_) ==
  Strict4(e1_, edit_, e2_, best_, LAMBDA equality1, edit, equality2, best :
    IF edit # <<>> /\ equality2 # <<>> /\ edit[1] = equality2[1]
      THEN LET e1 == Append(equality1, edit[1])
               ed == Append(Tail(edit), equality2[1])
               e2 == Tail(equality2)
               score == diff_cleanupSemanticScore(e1, ed) + diff_cleanupSemanticScore(ed, e2)
           IN lossless_slide(e1, ed, e2,
                             IF score >= best.score
                               THEN [equality1 |-> e1, edit |-> ed, equality2 |-> e2,
                                     score |-> score]
                               ELSE best)
      ELSE best)

\* diff_match_patch.diff_cleanupSemanticLossless from position pointer on
RECURSIVE diff_cleanupSemanticLossless(_, _)
diff_cleanupSemanticLossless(diffs, at) ==
  Strict2(diffs, at, LAMBDA D, pointer :
    IF pointer >= Len(D) - 1 THEN D
    ELSE IF D[pointer][1] = DIFF_EQUAL /\ D[pointer + 2][1] = DIFF_EQUAL
      THEN LET commonOffset == diff_commonSuffix(D[pointer][2], D[pointer + 1][2])
               commonString == TakeLast(D[pointer + 1][2], commonOffset)
               equality1 == DropLast(D[pointer][2], commonOffset)
               edit == commonString \o DropLast(D[pointer + 1][2], commonOffset)
               equality2 == commonString \o D[pointer + 2][2]
               best == lossless_slide(equality1, edit, equality2,
                         [equality1 |-> equality1, edit |-> edit, equality2 |-> equality2,
                          score |-> diff_cleanupSemanticScore(equality1, edit)
                                    + diff_cleanupSemanticScore(edit, equality2)])
           IN IF D[pointer][2] # best.equality1
                THEN LET D1 == IF best.equality1 # <<>>
                                 THEN ListSet(D, pointer - 1, <<DIFF_EQUAL, best.equality1>>)
                                 ELSE ListDel(D, pointer - 1)
                         p1 == IF best.equality1 # <<>> THEN pointer ELSE pointer - 1
                         D2 == ListSet(D1, p1, <<D1[p1 + 1][1], best.edit>>)
                         D3 == IF best.equality2 # <<>>
                                 THEN ListSet(D2, p1 + 1, <<DIFF_EQUAL, best.equality2>>)
                                 ELSE ListDel(D2, p1 + 1)
                         p3 == IF best.equality2 # <<>> THEN p1 ELSE p1 - 1
                     IN diff_cleanupSemanticLossless(D3, p3 + 1)
                ELSE diff_cleanupSemanticLossless(D, pointer + 1)
    ELSE diff_cleanupSemanticLossless(D, pointer + 1))

\* diff_cleanupSemantic, last loop: a deletion followed by an insertion that
\* overlap become delete / equal / insert or insert / equal / delete
RECURSIVE semantic_overlaps(_)
semantic_overlaps(list) ==
  Strict(list, LAMBDA diffs :
    IF Len(diffs) < 2 THEN diffs
    ELSE IF diffs[1][1] = DIFF_DELETE /\ diffs[2][1] = DIFF_INSERT
      THEN LET deletion == diffs[1][2]
               insertion == diffs[2][2]
               o1 == diff_commonOverlap(deletion, insertion)
               o2 == diff_commonOverlap(insertion, deletion)
               rest == semantic_overlaps(SubSeq(diffs, 3, Len(diffs)))
           IN IF o1 >= o2
                THEN (IF 2 * o1 >= Len(deletion) \/ 2 * o1 >= Len(insertion)
                        THEN << <<DIFF_DELETE, SubSeq(deletion, 1, Len(deletion) - o1)>>,
                                <<DIFF_EQUAL, SubSeq(insertion, 1, o1)>>,
                                <<DIFF_INSERT, SubSeq(insertion, o1 + 1, Len(insertion))>> >> \o rest
                        ELSE <<diffs[1], diffs[2]>> \o rest)
                ELSE (IF 2 * o2 >= Len(deletion) \/ 2 * o2 >= Len(insertion)
                        THEN << <<DIFF_INSERT, SubSeq(insertion, 1, Len(insertion) - o2)>>,
                                <<DIFF_EQUAL, SubSeq(deletion, 1, o2)>>,
                                <<DIFF_DELETE, SubSeq(deletion, o2 + 1, Len(deletion))>> >> \o rest
                        ELSE <<diffs[1], diffs[2]>> \o rest)
      ELSE <<diffs[1]>> \o semantic_overlaps(Tail(diffs)))


\* diff_match_patch.diff_cleanupSemantic
diff_cleanupSemantic(diffs) ==
  Strict(semantic_scan([diffs |-> diffs, pointer |-> 0, equalities |-> <<>>,
                        lastEquality |-> <<>>,
                        length_insertions1 |-> 0, length_deletions1 |-> 0,
                        length_insertions2 |-> 0, length_deletions2 |-> 0,
                        changes |-> FALSE]),
         LAMBDA scanned :
    semantic_overlaps(
      diff_cleanupSemanticLossless(
        IF scanned.changes THEN diff_cleanupMerge(scanned.diffs) ELSE scanned.diffs, 1)))

\* PatchEngine.generate_diff on two strings
generate_diff(original_text, replacement_text) ==
  diff_cleanupSemantic(diff_main(original_text, replacement_text))

\* _get_operation_type with the insert and delete entries of its map exchanged
get_operation_type_exchanged(op) ==
  IF op = DIFF_DELETE THEN "insert"
  ELSE IF op = DIFF_EQUAL THEN "equal"
  ELSE IF op = DIFF_INSERT THEN "delete" ELSE "unknown"

\* PatchEngine._get_operation_type
get_operation_type(op) ==
  IF op = DIFF_DELETE THEN "delete"
  ELSE IF op = DIFF_EQUAL THEN "equal"
  ELSE IF op = DIFF_INSERT THEN "insert" ELSE "unknown"

\* the loop of generate_patch with the position advancing over every text
RECURSIVE Operations_every_text_advances(_, _)
Operations_every_text_advances(list, at) ==
  Strict2(list, at, LAMBDA diffs, position :
    IF diffs = <<>> THEN <<>>
    ELSE LET op == diffs[1][1]
             text == diffs[1][2]
         IN << [type |-> get_operation_type(op), text |-> text,
                position |-> position, length |-> Len(text)] >>
            \o Operations_every_text_advances(Tail(diffs), position + Len(text)))

\* the loop of PatchEngine.generate_patch: one operation per diff tuple, the
\* running position advancing over delete and equal texts only
RECURSIVE Operations(_, _)
Operations(list, at) ==
  Strict2(list, at, LAMBDA diffs, position :
    IF diffs = <<>> THEN <<>>
    ELSE LET op == diffs[1][1]
             text == diffs[1][2]
         IN << [type |-> get_operation_type(op), text |-> text,
                position |-> position, length |-> Len(text)] >>
            \o Operations(Tail(diffs),
                          IF op \in {DIFF_DELETE, DIFF_EQUAL} THEN position + Len(text)
                          ELSE position))

\* What generate_patch does with two JSON values.  diff_main raises
\* ValueError on None; it returns [] for two equal falsy values before it
\* touches them as strings; any other non-string is sliced and raises
\* TypeError.
PatchRaises(o, r) ==
  \/ o = JNull \/ r = JNull
  \/ (o.ty # "str" \/ r.ty # "str") /\ o # r

PatchError(o, r) ==
  IF o = JNull \/ r = JNull THEN "Null inputs. (diff_main)"
  ELSE "'bool' object is not subscriptable"

SumLen(ops, ty) ==
  LET idx == {i \in 1..Len(ops) : ops[i].type = ty}
      RECURSIVE Sum(_)
      Sum(S) == IF S = {} THEN 0
                ELSE LET i == CHOOSE i \in S : TRUE IN ops[i].length + Sum(S \ {i})
  IN Sum(idx)

CountType(ops, ty) == Cardinality({i \in 1..Len(ops) : ops[i].type = ty})

\* get_change_summary counting the deletions instead of their characters
get_change_summary_counts_only(ops) ==
  [total_operations |-> Len(ops),
   insertions |-> CountType(ops, "insert"),
   deletions |-> CountType(ops, "delete"),
   equal |-> CountType(ops, "equal"),
   chars_inserted |-> SumLen(ops, "insert"),
   chars_deleted |-> CountType(ops, "delete")]

\* PatchEngine.get_change_summary
get_change_summary(ops) ==
  [total_operations |-> Len(ops),
   insertions |-> CountType(ops, "insert"),
   deletions |-> CountType(ops, "delete"),
   equal |-> CountType(ops, "equal"),
   chars_inserted |-> SumLen(ops, "insert"),
   chars_deleted |-> SumLen(ops, "delete")]

\* generate_patch reporting changes whenever there is an operation
generate_patch_any_operation(o, r) ==
  Strict(IF o.ty = "str" THEN Operations(generate_diff(o.s, r.s), 0) ELSE <<>>,
         LAMBDA ops :
    [original_text |-> o, replacement_text |-> r, operations |-> ops,
     total_operations |-> Len(ops),
     has_changes |-> Len(ops) > 0])

\* generate_patch that never reports a change
generate_patch_never_changes(o, r) ==
  Strict(IF o.ty = "str" THEN Operations(generate_diff(o.s, r.s), 0) ELSE <<>>,
         LAMBDA ops :
    [original_text |-> o, replacement_text |-> r, operations |-> ops,
     total_operations |-> Len(ops),
     has_changes |-> FALSE])

\* PatchEngine.generate_patch, for a pair on which it does not raise
generate_patch(o, r) ==
  Strict(IF o.ty = "str" THEN Operations(generate_diff(o.s, r.s), 0) ELSE <<>>,
         LAMBDA ops :
    [original_text |-> o, replacement_text |-> r, operations |-> ops,
     total_operations |-> Len(ops),
     has_changes |-> \E i \in 1..Len(ops) : ops[i].type \in {"insert", "delete"}])

\* a float that is the quotient of two integers
Ratio(n, d) == [num |-> n, den |-> d]
FloatEq(x, y) == x.num * y.den = y.num * x.den

RECURSIVE SumText(_, _)
SumText(diffs, op) ==
  IF diffs = <<>> THEN 0
  ELSE (IF diffs[1][1] = op THEN Len(diffs[1][2]) ELSE 0) + SumText(Tail(diffs), op)

\* calculate_similarity counting the characters of every operation
calculate_similarity_all_operations(o, r) ==
  Strict(generate_diff(o, r), LAMBDA diffs :
    LET total_chars == Max(Len(o), Len(r))
    IN IF total_chars = 0 THEN Ratio(1, 1)
       ELSE Ratio(SumText(diffs, DIFF_DELETE) + SumText(diffs, DIFF_EQUAL)
                    + SumText(diffs, DIFF_INSERT), total_chars))

\* PatchEngine.calculate_similarity
calculate_similarity(o, r) ==
  Strict(generate_diff(o, r), LAMBDA diffs :
    LET total_chars == Max(Len(o), Len(r))
    IN IF total_chars = 0 THEN Ratio(1, 1)
       ELSE Ratio(SumText(diffs, DIFF_EQUAL), total_chars))

\* PatchEngine.apply_patch_preview
RECURSIVE apply_patch_preview(_)
apply_patch_preview(ops) ==
  IF ops = <<>> THEN <<>>
  ELSE (IF ops[1].type \in {"insert", "equal"} THEN ops[1].text ELSE <<>>)
       \o apply_patch_preview(Tail(ops))

\* PatchEngine.validate_patch: the preview is a str, so it equals the expected
\* value only when that is the same string
validate_patch(patch) ==
  JStr(apply_patch_preview(patch.operations)) = patch.replacement_text

\* generate_paragraph_patches skipping the edits that change nothing
RECURSIVE generate_paragraph_patches_changed_only(_)
generate_paragraph_patches_changed_only(list) ==
  Strict(list, LAMBDA changes :
    IF changes = <<>> THEN <<>>
    ELSE Strict2(changes[1],
                 generate_patch(changes[1].original_text, changes[1].replacement_text),
                 LAMBDA change, patch_data :
         (IF ~patch_data.has_changes THEN <<>>
             ELSE << [paragraph_id |-> change.paragraph_id,
                      paragraph_index |-> change.paragraph_index,
                      original_text |-> change.original_text,
                      replacement_text |-> change.replacement_text,
                      operations |-> patch_data.operations,
                      reasoning |-> change.reasoning,
                      has_changes |-> patch_data.has_changes,
                      change_summary |-> get_change_summary(patch_data.operations)] >>)
            \o generate_paragraph_patches_changed_only(Tail(changes))))

\* ParagraphPatchGenerator.generate_paragraph_patches
RECURSIVE generate_paragraph_patches(_)
generate_paragraph_patches(list) ==
  Strict(list, LAMBDA changes :
    IF changes = <<>> THEN <<>>
    ELSE Strict2(changes[1],
                 generate_patch(changes[1].original_text, changes[1].replacement_text),
                 LAMBDA change, patch_data :
         << [paragraph_id |-> change.paragraph_id,
                paragraph_index |-> change.paragraph_index,
                original_text |-> change.original_text,
                replacement_text |-> change.replacement_text,
                operations |-> patch_data.operations,
                reasoning |-> change.reasoning,
                has_changes |-> patch_data.has_changes,
                change_summary |-> get_change_summary(patch_data.operations)] >>
            \o generate_paragraph_patches(Tail(changes))))

\* validate_all_patches satisfied by one valid patch
validate_all_patches_any(patches) ==
  patches = <<>> \/ \E i \in 1..Len(patches) : validate_patch(patches[i])

\* ParagraphPatchGenerator.validate_all_patches
validate_all_patches(patches) ==
  \A i \in 1..Len(patches) : validate_patch(patches[i])

\* ------------------------------------------------------- PatchApplier
\* A python-docx document is its list of paragraphs, a paragraph its list of
\* runs.  bold, italic and underline of a run are True, False or None (None
\* inherits from the style); font_name, font_size, strike and color are None
\* until set.
None == "None"
True == "True"
False == "False"
RED == "FF0000"      \* RGBColor(255, 0, 0)
GREEN == "008000"    \* RGBColor(0, 128, 0)

\* paragraph.add_run(text): a run with nothing set
add_run(text) ==
  [text |-> text, bold |-> None, italic |-> None, underline |-> None,
   font_name |-> None, font_size |-> None, strike |-> None, color |-> None]

\* Paragraph.text
RECURSIVE paragraph_text(_)
paragraph_text(runs) ==
  IF runs = <<>> THEN <<>> ELSE runs[1].text \o paragraph_text(Tail(runs))

\* original_formatting of a paragraph that has no run
NoFormatting == [bold |-> None, italic |-> None, underline |-> None,
                 font_name |-> None, font_size |-> None, captured |-> FALSE]

\* PatchApplier._extract_run_formatting
extract_run_formatting(run) ==
  [bold |-> IF run.bold # None THEN run.bold ELSE False,
   italic |-> IF run.italic # None THEN run.italic ELSE False,
   underline |-> IF run.underline # None THEN run.underline ELSE False,
   font_name |-> run.font_name,
   font_size |-> run.font_size,
   captured |-> TRUE]

\* PatchApplier._apply_formatting
apply_formatting(run, formatting) ==
  IF ~formatting.captured THEN run
  ELSE [run EXCEPT !.bold = formatting.bold,
                   !.italic = formatting.italic,
                   !.underline = formatting.underline,
                   !.font_name = IF formatting.font_name # None
                                   THEN formatting.font_name ELSE @,
                   !.font_size = IF formatting.font_size # None
                                   THEN formatting.font_size ELSE @]

\* PatchApplier._add_deleted_text: the run appended to the paragraph
add_deleted_text(text, formatting) ==
  [apply_formatting(add_run(text), formatting) EXCEPT !.strike = True, !.color = RED]

\* _add_inserted_text leaving the original formatting out
add_inserted_text_unformatted(text, formatting) ==
  [add_run(text) EXCEPT !.underline = True, !.color = GREEN]

\* PatchApplier._add_inserted_text: the run appended to the paragraph
add_inserted_text(text, formatting) ==
  [apply_formatting(add_run(text), formatting) EXCEPT !.underline = True, !.color = GREEN]

\* self.document.paragraphs[paragraph_id] with Python's indexing: a negative
\* index counts from the end, an index outside -n..n-1 raises IndexError.
\* The result is the 1-based position, 0 when the lookup raises.
PyIndex(n, i) ==
  IF i >= 0 /\ i < n THEN i + 1
  ELSE IF i < 0 /\ i >= -n THEN n + i + 1
  ELSE 0

\* PatchApplier._apply_single_paragraph_patch on an integer paragraph_id: the
\* success flag and the document afterwards
apply_single_paragraph_patch(document, paragraph_id, new_text) ==
  IF paragraph_id >= Len(document) THEN [success |-> FALSE, document |-> document]
  ELSE IF PyIndex(Len(document), paragraph_id) = 0
    THEN [success |-> FALSE, document |-> document]
  ELSE LET at == PyIndex(Len(document), paragraph_id)
           paragraph == document[at]
           original_text == paragraph_text(paragraph)
           original_formatting == IF paragraph # <<>>
                                    THEN extract_run_formatting(paragraph[1])
                                    ELSE NoFormatting
           deleted == IF original_text # <<>>
                        THEN <<add_deleted_text(original_text, original_formatting)>>
                        ELSE <<>>
           inserted == IF new_text # <<>>
                         THEN <<add_inserted_text(new_text, original_formatting)>>
                         ELSE <<>>
       IN [success |-> TRUE,
           document |-> [document EXCEPT ![at] = deleted \o inserted]]

\* the loop of PatchApplier.apply_paragraph_patches, lines 45-59: the
\* document and applied_count after the patches.  patch.get("paragraph_id") of
\* a patch without the key is None, and None >= int raises TypeError, which
\* line 120 turns into False; replacement_text defaults to "".
RECURSIVE apply_loop(_, _, _)
apply_loop(document, patches, applied_count) ==
  IF patches = <<>> THEN [document |-> document, applied_count |-> applied_count]
  ELSE LET patch == patches[1]
           replacement_text == IF "replacement_text" \in DOMAIN patch
                                 THEN patch.replacement_text.s ELSE <<>>
           r == IF "paragraph_id" \in DOMAIN patch
                  THEN apply_single_paragraph_patch(document, patch.paragraph_id,
                                                    replacement_text)
                  ELSE [success |-> FALSE, document |-> document]
       IN apply_loop(r.document, Tail(patches),
                     IF r.success THEN applied_count + 1 ELSE applied_count)

\* PatchApplier.apply_paragraph_patches: the bytes it returns are the saved
\* document; applied_count is logged and dropped
apply_paragraph_patches(document, patches) ==
  apply_loop(document, patches, 0).document

\* PatchApplier.apply_simple_replacement: paragraph.clear() drops the runs,
\* add_run adds one unformatted run, also for the empty text
apply_simple_replacement(document, paragraph_id, new_text) ==
  IF paragraph_id >= Len(document) THEN [success |-> FALSE, document |-> document]
  ELSE IF PyIndex(Len(document), paragraph_id) = 0
    THEN [success |-> FALSE, document |-> document]
  ELSE [success |-> TRUE,
        document |-> [document EXCEPT ![PyIndex(Len(document), paragraph_id)] =
                                         <<add_run(new_text)>>]]

\* BatchPatchApplier.apply_patches_to_document
apply_patches_to_document(document_bytes, patches) ==
  apply_paragraph_patches(document_bytes, patches)

\* ------------------------------------------------------------ the oracle
Edit(pid, o, r, why, complete) ==
  [paragraph_id |-> pid, original_text |-> o, replacement_text |-> r,
   reasoning |-> why, has_fields |-> complete]

\* Entries an answer of the LLM can hold: a real change, an edit that changes
\* nothing, a second real change, an out-of-range paragraph, two equal non-strings, a null text and
\* an entry with a key missing.
E0 == Edit(0, JStr(<<"a">>), JStr(<<"a", "b">>), "r0", TRUE)
E1 == Edit(1, JStr(<<"b">>), JStr(<<"b">>), "r1", TRUE)
E2 == Edit(1, JStr(<<"b">>), JStr(<<"b", "a">>), "r6", TRUE)
EOut == Edit(NumParagraphs, JStr(<<"a">>), JStr(<<"b">>), "r2", TRUE)
EFalse == Edit(0, JFalse, JFalse, "r3", TRUE)
ENull == Edit(1, JNull, JStr(<<"a">>), "r4", TRUE)
EShort == Edit(1, JStr(<<"b">>), JStr(<<>>), "r5", FALSE)

\* the answers the agent gives in the model
OracleAnswers ==
  { <<>>, <<E0>>, <<E0, E1>>, <<E1, E0>>, <<EOut>>, <<EOut, E2>>, <<EShort>>,
    <<E0, EFalse>>, <<ENull, E0>> }

\* _validate_edits without the paragraph id check
RECURSIVE validate_edits_any_id(_)
validate_edits_any_id(raw) ==
  IF raw = <<>> THEN <<>>
  ELSE LET edit == raw[1]
           para_id == edit.paragraph_id
       IN (IF ~edit.has_fields THEN <<>>
           ELSE << [paragraph_id |-> para_id, paragraph_index |-> para_id,
                    original_text |-> edit.original_text,
                    replacement_text |-> edit.replacement_text,
                    reasoning |-> edit.reasoning] >>)
          \o validate_edits_any_id(Tail(raw))

\* LegalDocumentAgent._validate_edits
RECURSIVE validate_edits(_)
validate_edits(raw) ==
  IF raw = <<>> THEN <<>>
  ELSE LET edit == raw[1]
           para_id == edit.paragraph_id
       IN (IF para_id \notin 0..(NumParagraphs - 1) \/ ~edit.has_fields THEN <<>>
           ELSE << [paragraph_id |-> para_id, paragraph_index |-> para_id,
                    original_text |-> edit.original_text,
                    replacement_text |-> edit.replacement_text,
                    reasoning |-> edit.reasoning] >>)
          \o validate_edits(Tail(raw))

\* ------------------------------------------------------------------ state
VARIABLES
  now,            \* datetime.utcnow()
  documents,      \* ids of the rows of table documents
  nextDocId,
  jobs,           \* committed rows of table jobs, by id
  uncommitted,    \* rows inserted by a submit request that has not committed
  nextJobId,
  queue,          \* process_edit_instruction messages in the broker
  invokes,        \* direct dispatches so far
  pc,             \* where each worker's task stands
  job_id,         \* the task's argument
  job,            \* the Job object in the task's session (never refreshed:
                  \* the session is made with expire_on_commit=False)
  edits,          \* the agent's validated edits
  exc,            \* str(e) of the exception being handled
  rollback_needed,\* the session saw a database error and was not rolled back
  returned,       \* the last task return: the job id and the result
  blobs,          \* blob storage: the document saved under each blob name
  versions,       \* rows of table document_versions
  response,       \* the last HTTP response of the patch routes
  original_text,  \* PatchEngine: the first argument of generate_patch
  replacement_text, \* PatchEngine: the second argument of generate_patch
  patch_data,     \* PatchEngine: what generate_patch returned
  validated,      \* PatchEngine: the last validate_patch call and its result
  batch_result,   \* PatchEngine: the last validate_all_patches call and result
  similarity,     \* PatchEngine: what calculate_similarity returned
  summary,        \* PatchEngine: what get_change_summary returned
  self_document,  \* PatchApplier: self.document
  call,           \* PatchApplier: the last call, its arguments and its return
  calls,          \* PatchApplier: how many calls were made
  stuck,          \* the ids of the jobs the last get_stuck_jobs call returned
  requests        \* apply_patch: the locals of each request that is under way

vars == <<now, documents, nextDocId, jobs, uncommitted, nextJobId, queue, invokes,
          pc, job_id, job, edits, exc, rollback_needed, returned,
          blobs, versions, response,
          original_text, replacement_text, patch_data, validated, batch_result,
          similarity, summary,
          self_document, call, calls, stuck, requests>>
engineVars == <<original_text, replacement_text, patch_data, validated, batch_result,
                similarity, summary>>
applierVars == <<self_document, call, calls>>
queryVars == <<stuck>>
applyVars == <<requests>>
pureVars == <<engineVars, applierVars, queryVars>>
apiVars == <<blobs, versions, response>>
dbVars == <<documents, nextDocId, jobs, uncommitted, nextJobId>>
workerVars == <<pc, job_id, job, edits, exc, rollback_needed, returned>>

NewJob(d) ==
  [document_id |-> d, status |-> PENDING, patch_json |-> Null,
   error_message |-> Null, started_at |-> Null, completed_at |-> Null]

NoObject ==
  [document_id |-> 0, status |-> "none", patch_json |-> Null,
   error_message |-> Null, started_at |-> Null, completed_at |-> Null]

NoMessage == ""

\* the name upload_document gives a blob: user_id/document_id/v{version}_filename
blob_name(document_id, version) == <<document_id, version>>

\* the DOCX a user uploads: NumParagraphs one-run paragraphs "a", "b", "a", ...
\* the first of them bold
UploadedDocument ==
  [i \in 1..NumParagraphs |->
     << [add_run(IF i % 2 = 1 THEN <<"a">> ELSE <<"b">>)
           EXCEPT !.bold = IF i = 1 THEN True ELSE None] >>]

NewVersion(d, n) ==
  [document_id |-> d, version_number |-> n, blob_path |-> blob_name(d, n)]

\* an HTTP response: the route, the job asked for, the status code, and the
\* body's patches (preview) or version_number (apply)
Response(route, j, status_code, patches, version_number) ==
  [route |-> route, job_id |-> j, status_code |-> status_code,
   patches |-> patches, version_number |-> version_number]

NoResponse == Response("none", 0, 0, Null, Null)

\* PatchEngine before any call: no patch generated, nothing validated
\* an apply_patch request that has not arrived
NoRequest == [pc |-> "none", job_id |-> 0, document_id |-> 0, next_version |-> 0,
              modified_bytes |-> <<>>]

NoPatchData ==
  [original_text |-> JNull, replacement_text |-> JNull, operations |-> <<>>,
   total_operations |-> 0, has_changes |-> FALSE]

EngineIdle ==
  /\ original_text = <<>>
  /\ replacement_text = <<>>
  /\ patch_data = NoPatchData
  /\ validated = Null
  /\ batch_result = Null
  /\ similarity = Null
  /\ summary = Null

\* PatchApplier before it is constructed
NoCall == [name |-> "none", args |-> <<>>, returned |-> Null]

ApplierIdle ==
  /\ self_document = <<>>
  /\ call = NoCall
  /\ calls = 0

Init ==
  /\ now = 0
  /\ documents = {}
  /\ nextDocId = 1
  /\ jobs = <<>>
  /\ uncommitted = <<>>
  /\ nextJobId = 1
  /\ queue = <<>>
  /\ invokes = 0
  /\ pc = [w \in Workers |-> "idle"]
  /\ job_id = [w \in Workers |-> 0]
  /\ job = [w \in Workers |-> NoObject]
  /\ edits = [w \in Workers |-> <<>>]
  /\ exc = [w \in Workers |-> NoMessage]
  /\ rollback_needed = [w \in Workers |-> FALSE]
  /\ returned = [job_id |-> 0, result |-> "none"]
  /\ blobs = <<>>
  /\ versions = <<>>
  /\ response = NoResponse
  /\ stuck = Null
  /\ requests = [r \in Requests |-> NoRequest]
  /\ EngineIdle
  /\ ApplierIdle

\* --------------------------------------------------------- HTTP handlers
Tick ==
  /\ now < MaxTime
  /\ now' = now + 1
  /\ UNCHANGED <<dbVars, queue, invokes, workerVars, apiVars, pureVars, applyVars>>

\* POST /upload
upload_document ==
  /\ nextDocId <= MaxDocs
  /\ documents' = documents \cup {nextDocId}
  /\ nextDocId' = nextDocId + 1
  /\ blobs' = (blob_name(nextDocId, 1) :> UploadedDocument) @@ blobs
  /\ versions' = Append(versions, NewVersion(nextDocId, 1))
  /\ UNCHANGED <<now, jobs, uncommitted, nextJobId, queue, invokes, workerVars, response, pureVars, applyVars>>

\* POST /documents/{id}/edit: the row is flushed inside the request's
\* transaction and the task is sent before the handler returns
submit_edit_instruction(d) ==
  /\ d \in documents
  /\ nextJobId <= MaxJobs
  /\ Len(queue) < MaxQueue
  /\ uncommitted' = (nextJobId :> NewJob(d)) @@ uncommitted
  /\ queue' = Append(queue, nextJobId)
  /\ nextJobId' = nextJobId + 1
  /\ UNCHANGED <<now, documents, nextDocId, jobs, invokes, workerVars, apiVars, pureVars, applyVars>>

\* get_async_db commits once the handler has returned
get_async_db_commit(j) ==
  /\ j \in DOMAIN uncommitted
  /\ jobs' = (j :> uncommitted[j]) @@ jobs
  /\ uncommitted' = [k \in DOMAIN uncommitted \ {j} |-> uncommitted[k]]
  /\ UNCHANGED <<now, documents, nextDocId, nextJobId, queue, invokes, workerVars, apiVars, pureVars, applyVars>>

\* delete_document on a schema whose jobs.document_id does not cascade
delete_document_orphans(d) ==
  /\ d \in documents
  /\ \A j \in DOMAIN uncommitted : uncommitted[j].document_id # d
  /\ documents' = documents \ {d}
  /\ versions' = SelectSeq(versions, LAMBDA v : v.document_id # d)
  /\ \/ blobs' = [b \in DOMAIN blobs \ {blob_name(d, 1)} |-> blobs[b]]
     \/ UNCHANGED blobs
  /\ UNCHANGED <<now, nextDocId, jobs, uncommitted, nextJobId, queue, invokes, workerVars, response, pureVars, applyVars>>

\* DELETE /documents/{id}: jobs.document_id is ON DELETE CASCADE.  The delete
\* waits for a submit that holds the row through its foreign key.
delete_document(d) ==
  /\ d \in documents
  /\ \A j \in DOMAIN uncommitted : uncommitted[j].document_id # d
  /\ documents' = documents \ {d}
  /\ jobs' = [j \in {k \in DOMAIN jobs : jobs[k].document_id # d} |-> jobs[j]]
  /\ versions' = SelectSeq(versions, LAMBDA v : v.document_id # d)
  /\ \/ blobs' = [b \in DOMAIN blobs \ {blob_name(d, 1)} |-> blobs[b]]
     \/ UNCHANGED blobs
  /\ UNCHANGED <<now, nextDocId, uncommitted, nextJobId, queue, invokes, workerVars, response, pureVars, applyVars>>

\* get_stuck_jobs with the comparison of started_at left out
get_stuck_jobs_any_start(timeout_minutes) ==
  /\ stuck' = Some({j \in DOMAIN jobs : jobs[j].status = PROCESSING})
  /\ UNCHANGED <<now, dbVars, queue, invokes, workerVars, apiVars, engineVars,
                 applierVars, applyVars>>

\* JobRepository.get_stuck_jobs(timeout_minutes): a SELECT over the committed
\* rows.  A NULL started_at compares as unknown and the row is left out.
get_stuck_jobs(timeout_minutes) ==
  /\ stuck' = Some({j \in DOMAIN jobs :
                      /\ jobs[j].status = PROCESSING
                      /\ jobs[j].started_at # Null
                      /\ jobs[j].started_at[1] < now - timeout_minutes})
  /\ UNCHANGED <<now, dbVars, queue, invokes, workerVars, apiVars, engineVars,
                 applierVars, applyVars>>

\* process_edit_instruction.delay(j) by any producer, for any id
Invoke(j) ==
  /\ invokes < MaxInvokes
  /\ Len(queue) < MaxQueue
  /\ queue' = Append(queue, j)
  /\ invokes' = invokes + 1
  /\ UNCHANGED <<now, dbVars, workerVars, apiVars, pureVars, applyVars>>

\* ------------------------------------------------- SyncJobRepository
\* the assignments of update_status on the session's Job object
update_status(obj, status, error_message, t) ==
  [obj EXCEPT !.status = status,
              !.started_at = IF status = PROCESSING THEN Some(t) ELSE @,
              !.completed_at = IF status \in Terminal THEN Some(t) ELSE @,
              !.error_message = IF error_message # NoMessage
                                  THEN Some(error_message) ELSE @]

\* the assignments of save_patch
save_patch(obj, patch_json, t) ==
  [obj EXCEPT !.patch_json = Some(patch_json), !.status = COMPLETED,
              !.completed_at = Some(t)]

\* flush and commit: the UPDATE sets the columns whose attribute differs from
\* what the session loaded or last wrote, on the row as it stands now
Flush(row, old, new) ==
  [f \in DOMAIN row |-> IF new[f] # old[f] THEN new[f] ELSE row[f]]

\* A repository write and the commit after it.  get_by_id inside the
\* repository method queries the table: when the row is gone the method
\* returns None and nothing is assigned.
Write(w, new) ==
  jobs' = IF job_id[w] \in DOMAIN jobs
            THEN [jobs EXCEPT ![job_id[w]] = Flush(@, job[w], new)]
            ELSE jobs

\* the session's object after a write, while the task goes on
Written(w, new) ==
  job' = [job EXCEPT ![w] = IF job_id[w] \in DOMAIN jobs THEN new ELSE @]

\* an exception reaches line 135; db tells that the session raised it
Raise(w, msg, db) ==
  /\ pc' = [pc EXCEPT ![w] = "except"]
  /\ exc' = [exc EXCEPT ![w] = msg]
  /\ rollback_needed' = [rollback_needed EXCEPT ![w] = db]
  /\ edits' = [edits EXCEPT ![w] = <<>>]
  /\ UNCHANGED <<jobs, job, job_id, returned>>

\* the task returns r: finally closes the session and the frame is gone
Return(w, r) ==
  /\ pc' = [pc EXCEPT ![w] = "idle"]
  /\ returned' = [job_id |-> job_id[w], result |-> r]
  /\ job_id' = [job_id EXCEPT ![w] = 0]
  /\ job' = [job EXCEPT ![w] = NoObject]
  /\ edits' = [edits EXCEPT ![w] = <<>>]
  /\ exc' = [exc EXCEPT ![w] = NoMessage]
  /\ rollback_needed' = [rollback_needed EXCEPT ![w] = FALSE]

\* the task moves on to the statement at label
Goto(w, label) ==
  /\ pc' = [pc EXCEPT ![w] = label]
  /\ UNCHANGED <<job_id, exc, rollback_needed, returned>>

others == <<now, documents, nextDocId, uncommitted, nextJobId, invokes, apiVars,
            pureVars, applyVars>>

\* ------------------------------------------- process_edit_instruction
\* a worker takes the next message and opens a session
StartTask(w) ==
  /\ pc[w] = "idle"
  /\ queue # <<>>
  /\ queue' = Tail(queue)
  /\ pc' = [pc EXCEPT ![w] = "get_job"]
  /\ job_id' = [job_id EXCEPT ![w] = Head(queue)]
  /\ UNCHANGED <<others, jobs, job, edits, exc, rollback_needed, returned>>

\* GetJob without the return of line 43
GetJob_no_return(w) ==
  /\ pc[w] = "get_job"
  /\ \/ Raise(w, "db error", TRUE)
     \/ /\ job' = [job EXCEPT ![w] = IF job_id[w] \in DOMAIN jobs
                                       THEN jobs[job_id[w]] ELSE NoObject]
        /\ Goto(w, "update_processing")
        /\ UNCHANGED <<jobs, edits>>
  /\ UNCHANGED <<others, queue>>

\* lines 39-43
GetJob(w) ==
  /\ pc[w] = "get_job"
  /\ \/ Raise(w, "db error", TRUE)
     \/ /\ job_id[w] \notin DOMAIN jobs
        /\ Return(w, "Job not found")
        /\ UNCHANGED jobs
     \/ /\ job_id[w] \in DOMAIN jobs
        /\ job' = [job EXCEPT ![w] = jobs[job_id[w]]]
        /\ Goto(w, "update_processing")
        /\ UNCHANGED <<jobs, edits>>
  /\ UNCHANGED <<others, queue>>

\* lines 45-47
UpdateProcessing(w) ==
  /\ pc[w] = "update_processing"
  /\ \/ Raise(w, "db error", TRUE)
     \/ /\ Write(w, update_status(job[w], PROCESSING, NoMessage, now))
        /\ Written(w, update_status(job[w], PROCESSING, NoMessage, now))
        /\ Goto(w, "get_document")
        /\ UNCHANGED edits
  /\ UNCHANGED <<others, queue>>

\* lines 51-53
GetDocument(w) ==
  /\ pc[w] = "get_document"
  /\ \/ Raise(w, "db error", TRUE)
     \/ /\ Goto(w, IF job[w].document_id \in documents
                     THEN "download" ELSE "document_missing")
        /\ UNCHANGED <<jobs, job, edits>>
  /\ UNCHANGED <<others, queue>>

\* lines 54-61
DocumentMissing(w) ==
  /\ pc[w] = "document_missing"
  /\ \/ Raise(w, "db error", TRUE)
     \/ /\ Write(w, update_status(job[w], FAILED, "Document not found", now))
        /\ Return(w, "Document not found")
  /\ UNCHANGED <<others, queue>>

\* the first edit generate_patch raises on, 0 when it raises on none
FirstRaising(es) ==
  LET bad == {i \in 1..Len(es) :
                PatchRaises(es[i].original_text, es[i].replacement_text)}
  IN IF bad = {} THEN 0 ELSE CHOOSE i \in bad : \A k \in bad : i <= k

\* lines 102-110 on the validated edits es: where the task stands next
AfterPatches(w, es) ==
  IF es = <<>>
    THEN /\ Goto(w, "no_edits")
         /\ UNCHANGED <<jobs, job, edits>>
  ELSE IF FirstRaising(es) # 0
    THEN Raise(w, PatchError(es[FirstRaising(es)].original_text,
                             es[FirstRaising(es)].replacement_text), FALSE)
  ELSE IF validate_all_patches(generate_paragraph_patches(es))
    THEN /\ Goto(w, "save_patch")
         /\ edits' = [edits EXCEPT ![w] = es]
         /\ UNCHANGED <<jobs, job>>
    ELSE /\ Goto(w, "validation_failed")
         /\ UNCHANGED <<jobs, job, edits>>

\* lines 63-110: the download, the parse, the agent's call and the patch
\* builder run between two database statements and touch nothing shared.
\* Each of them can raise (a soft time limit raises here as well).
Prepare(w) ==
  /\ pc[w] = "download"
  /\ \/ Raise(w, "Failed to download document", FALSE)
     \/ Raise(w, "Invalid DOCX file", FALSE)
     \/ Raise(w, "Edit generation failed", FALSE)
     \/ \E raw \in OracleAnswers : AfterPatches(w, validate_edits(raw))
  /\ UNCHANGED <<others, queue>>

\* lines 88-100
NoEdits(w) ==
  /\ pc[w] = "no_edits"
  /\ \/ Raise(w, "db error", TRUE)
     \/ /\ Write(w, update_status(job[w], COMPLETED,
                                  "No changes needed for this instruction", now))
        /\ Return(w, "No changes needed")
  /\ UNCHANGED <<others, queue>>

\* ValidationFailed keeping the batch it rejects
ValidationFailed_keeps_batch(w) ==
  /\ pc[w] = "validation_failed"
  /\ \/ Raise(w, "db error", TRUE)
     \/ /\ Write(w, [update_status(job[w], FAILED,
                                   "Generated patches failed validation", now)
                       EXCEPT !.patch_json = Some(<<>>)])
        /\ Return(w, "Patch validation failed")
  /\ UNCHANGED <<others, queue>>

\* lines 110-118
ValidationFailed(w) ==
  /\ pc[w] = "validation_failed"
  /\ \/ Raise(w, "db error", TRUE)
     \/ /\ Write(w, update_status(job[w], FAILED,
                                  "Generated patches failed validation", now))
        /\ Return(w, "Patch validation failed")
  /\ UNCHANGED <<others, queue>>

\* lines 120-133: json.dumps keeps the list as it is
SavePatch(w) ==
  /\ pc[w] = "save_patch"
  /\ \/ Raise(w, "db error", TRUE)
     \/ /\ Write(w, save_patch(job[w], generate_paragraph_patches(edits[w]), now))
        /\ Return(w, "completed")
  /\ UNCHANGED <<others, queue>>

\* lines 135-154: the handler writes Failed; a second exception is logged and
\* dropped.  A session that raised and was not rolled back refuses every
\* further statement, and the handler calls no rollback.
Except(w) ==
  /\ pc[w] = "except"
  /\ \/ /\ ~rollback_needed[w]
        /\ Write(w, update_status(job[w], FAILED, exc[w], now))
     \/ UNCHANGED jobs
  /\ Return(w, "error")
  /\ UNCHANGED <<others, queue>>

Task(w) ==
  \/ StartTask(w) \/ GetJob(w) \/ UpdateProcessing(w) \/ GetDocument(w)
  \/ DocumentMissing(w) \/ Prepare(w) \/ NoEdits(w) \/ ValidationFailed(w)
  \/ SavePatch(w) \/ Except(w)

Next ==
  \/ Tick
  \/ upload_document
  \/ \E d \in DocIds : submit_edit_instruction(d)
  \/ \E j \in JobIds : get_async_db_commit(j)
  \/ \E d \in DocIds : delete_document(d)
  \/ \E j \in RunIds : Invoke(j)
  \/ \E w \in Workers : Task(w)
  \/ \E timeout_minutes \in 0..MaxTime : get_stuck_jobs(timeout_minutes)

Spec == Init /\ [][Next]_vars

\* Every task that has started keeps running; nothing obliges a producer to
\* send another message.
FairSpec == Spec /\ \A w \in Workers : WF_vars(Task(w))

\* ------------------------------------------------------ the patch routes
\* DocumentVersionRepository.get_next_version_number
get_next_version_number(document_id) ==
  LET numbers == {versions[i].version_number : i \in
                    {k \in 1..Len(versions) : versions[k].document_id = document_id}}
  IN IF numbers = {} THEN 1
     ELSE (CHOOSE n \in numbers : \A m \in numbers : m <= n) + 1

\* DocumentVersionRepository.get_latest_version of a document that has versions
get_latest_version(document_id) ==
  LET own == {k \in 1..Len(versions) : versions[k].document_id = document_id}
  IN versions[CHOOSE k \in own :
                \A m \in own : versions[m].version_number <= versions[k].version_number]

\* GET /jobs/{job_id}/patch
get_patch_preview(j) ==
  /\ response' =
       IF j \notin DOMAIN jobs THEN Response("preview", j, 404, Null, Null)
       ELSE IF jobs[j].status # COMPLETED \/ jobs[j].patch_json = Null
         THEN Response("preview", j, 400, Null, Null)
       ELSE Response("preview", j, 200, jobs[j].patch_json, Null)
  /\ UNCHANGED <<now, dbVars, queue, invokes, workerVars, blobs, versions, pureVars, applyVars>>

\* apply_patch without the check of lines 420-425 on the status
apply_patch_any_status(j) ==
  /\ IF j \notin DOMAIN jobs
       THEN /\ response' = Response("apply", j, 404, Null, Null)
            /\ UNCHANGED <<blobs, versions>>
     ELSE IF jobs[j].patch_json = Null
       THEN /\ response' = Response("apply", j, 400, Null, Null)
            /\ UNCHANGED <<blobs, versions>>
     ELSE LET document_id == jobs[j].document_id
              patches == jobs[j].patch_json[1]
              blob_path == blob_name(document_id, 1)
              next_version == get_next_version_number(document_id)
              new_blob_path == blob_name(document_id, next_version)
          IN /\ blob_path \in DOMAIN blobs
             /\ next_version <= MaxVersions
             /\ blobs' = (new_blob_path :>
                            apply_patches_to_document(blobs[blob_path], patches)) @@ blobs
             /\ versions' = Append(versions, NewVersion(document_id, next_version))
             /\ response' = Response("apply", j, 200, Null, Some(next_version))
  /\ UNCHANGED <<now, dbVars, queue, invokes, workerVars, pureVars, applyVars>>

\* POST /jobs/{job_id}/apply.  The base is the blob of document.blob_path, which
\* upload_document set and nothing changes afterwards.  Whatever raises inside
\* the try gives 500 and rolls the request's transaction back; a blob that was
\* uploaded before stays.
apply_patch(j) ==
  /\ IF j \notin DOMAIN jobs
       THEN /\ response' = Response("apply", j, 404, Null, Null)
            /\ UNCHANGED <<blobs, versions>>
     ELSE IF jobs[j].status # COMPLETED \/ jobs[j].patch_json = Null
       THEN /\ response' = Response("apply", j, 400, Null, Null)
            /\ UNCHANGED <<blobs, versions>>
     ELSE LET document_id == jobs[j].document_id
              patches == jobs[j].patch_json[1]
              blob_path == blob_name(document_id, 1)
              next_version == get_next_version_number(document_id)
              new_blob_path == blob_name(document_id, next_version)
          IN \/ /\ response' = Response("apply", j, 500, Null, Null)
                /\ UNCHANGED <<blobs, versions>>
             \/ /\ blob_path \in DOMAIN blobs
                /\ next_version <= MaxVersions
                /\ blobs' = (new_blob_path :>
                               apply_patches_to_document(blobs[blob_path], patches)) @@ blobs
                /\ \/ /\ versions' = Append(versions, NewVersion(document_id, next_version))
                      /\ response' = Response("apply", j, 200, Null, Some(next_version))
                   \/ /\ response' = Response("apply", j, 500, Null, Null)
                      /\ UNCHANGED versions
  /\ UNCHANGED <<now, dbVars, queue, invokes, workerVars, pureVars, applyVars>>

\* the patch sets the task stores for the uploaded document
StoredPatchSets ==
  {generate_paragraph_patches(validate_edits(raw)) :
     raw \in {a \in OracleAnswers :
                /\ validate_edits(a) # <<>>
                /\ FirstRaising(validate_edits(a)) = 0
                /\ validate_all_patches(generate_paragraph_patches(validate_edits(a)))}}

\* the rows the task leaves behind: a Pending job has no patch set, any other
\* status occurs with and without one
ReviewedJobs ==
  {r \in {[NewJob(d) EXCEPT !.status = st, !.patch_json = pj] :
            d \in DocIds, st \in JobStatus,
            pj \in {Null} \cup {Some(ps) : ps \in StoredPatchSets}} :
     r.status = PENDING => r.patch_json = Null}

\* every document uploaded, a job table as the task left it, no task running
ApiInit ==
  /\ now = 0
  /\ documents = DocIds
  /\ nextDocId = MaxDocs + 1
  /\ blobs = [b \in {blob_name(d, 1) : d \in DocIds} |-> UploadedDocument]
  /\ versions \in {vs \in [1..MaxDocs -> {NewVersion(d, 1) : d \in DocIds}] :
                     \A d \in DocIds : vs[d].document_id = d}
  /\ jobs \in [1..MaxReviewed -> ReviewedJobs]
  /\ uncommitted = <<>>
  /\ nextJobId = MaxReviewed + 1
  /\ queue = <<>>
  /\ invokes = 0
  /\ pc = [w \in Workers |-> "idle"]
  /\ job_id = [w \in Workers |-> 0]
  /\ job = [w \in Workers |-> NoObject]
  /\ edits = [w \in Workers |-> <<>>]
  /\ exc = [w \in Workers |-> NoMessage]
  /\ rollback_needed = [w \in Workers |-> FALSE]
  /\ returned = [job_id |-> 0, result |-> "none"]
  /\ response = NoResponse
  /\ stuck = Null
  /\ requests = [r \in Requests |-> NoRequest]
  /\ EngineIdle
  /\ ApplierIdle

ApiNext ==
  \/ \E j \in 1..(MaxReviewed + 1) : get_patch_preview(j)
  \/ \E j \in 1..(MaxReviewed + 1) : apply_patch(j)
  \/ \E d \in DocIds : delete_document(d)

ApiSpec == ApiInit /\ [][ApiNext]_vars

\* ------------------------------------ apply requests that run side by side
\* apply_patch is a coroutine: another request runs at each await, and each
\* request has a session and a transaction of its own.
Answer(r, status_code, version_number) ==
  /\ response' = Response("apply", requests[r].job_id, status_code, Null, version_number)
  /\ requests' = [requests EXCEPT ![r].pc = "done"]

\* POST /jobs/{job_id}/apply, lines 408-447: the checks, the download, the
\* patches applied in memory and the SELECT of the latest version number
apply_patch_read(r, j) ==
  /\ requests[r].pc = "none"
  /\ IF j \notin DOMAIN jobs
       THEN /\ response' = Response("apply", j, 404, Null, Null)
            /\ requests' = [requests EXCEPT ![r].pc = "done", ![r].job_id = j]
     ELSE IF jobs[j].status # COMPLETED \/ jobs[j].patch_json = Null
       THEN /\ response' = Response("apply", j, 400, Null, Null)
            /\ requests' = [requests EXCEPT ![r].pc = "done", ![r].job_id = j]
     ELSE LET document_id == jobs[j].document_id
              blob_path == blob_name(document_id, 1)
          IN \/ /\ response' = Response("apply", j, 500, Null, Null)
                /\ requests' = [requests EXCEPT ![r].pc = "done", ![r].job_id = j]
             \/ /\ blob_path \in DOMAIN blobs
                /\ get_next_version_number(document_id) <= MaxVersions
                /\ requests' = [requests EXCEPT ![r] =
                     [pc |-> "upload", job_id |-> j, document_id |-> document_id,
                      next_version |-> get_next_version_number(document_id),
                      modified_bytes |->
                        apply_patches_to_document(blobs[blob_path], jobs[j].patch_json[1])]]
                /\ UNCHANGED response
  /\ UNCHANGED <<now, dbVars, queue, invokes, workerVars, blobs, versions, pureVars>>

\* lines 450-456: storage.upload_document writes the blob named after the
\* version number, overwrite=True
apply_patch_upload(r) ==
  /\ requests[r].pc = "upload"
  /\ \/ /\ Answer(r, 500, Null)
        /\ UNCHANGED blobs
     \/ /\ blobs' = (blob_name(requests[r].document_id, requests[r].next_version)
                       :> requests[r].modified_bytes) @@ blobs
        /\ requests' = [requests EXCEPT ![r].pc = "create"]
        /\ UNCHANGED response
  /\ UNCHANGED <<now, dbVars, queue, invokes, workerVars, versions, pureVars>>

\* lines 459-464 and the commit of get_async_db: the version row is inserted
\* and becomes visible to the other sessions
apply_patch_create(r) ==
  /\ requests[r].pc = "create"
  /\ \/ /\ Answer(r, 500, Null)
        /\ UNCHANGED versions
     \/ /\ versions' = Append(versions, NewVersion(requests[r].document_id,
                                                   requests[r].next_version))
        /\ Answer(r, 200, Some(requests[r].next_version))
  /\ UNCHANGED <<now, dbVars, queue, invokes, workerVars, blobs, pureVars>>

ApplyNext ==
  \/ \E r \in Requests, j \in 1..(MaxReviewed + 1) : apply_patch_read(r, j)
  \/ \E r \in Requests : apply_patch_upload(r)
  \/ \E r \in Requests : apply_patch_create(r)

ApplySpec == ApiInit /\ [][ApplyNext]_vars

\* ------------------------------------------------- the patch engine alone
\* the strings handed to the engine
Texts == UNION {[1..n -> Chars] : n \in 0..MaxLen}

\* generate_patch(original_text, replacement_text)
GeneratePatch ==
  /\ patch_data = NoPatchData
  /\ patch_data' = generate_patch(JStr(original_text), JStr(replacement_text))
  /\ UNCHANGED <<original_text, replacement_text, validated, batch_result,
                 similarity, summary>>
  /\ UNCHANGED <<now, dbVars, queue, invokes, workerVars, apiVars, applierVars, queryVars, applyVars>>

\* calculate_similarity(original_text, replacement_text)
CalculateSimilarity ==
  /\ similarity = Null
  /\ similarity' = Some(calculate_similarity(original_text, replacement_text))
  /\ UNCHANGED <<original_text, replacement_text, patch_data, validated,
                 batch_result, summary>>
  /\ UNCHANGED <<now, dbVars, queue, invokes, workerVars, apiVars, applierVars, queryVars, applyVars>>

\* get_change_summary(patch_data), of a generated patch
GetChangeSummary ==
  /\ patch_data # NoPatchData
  /\ summary = Null
  /\ summary' = Some(get_change_summary(patch_data.operations))
  /\ UNCHANGED <<original_text, replacement_text, patch_data, validated,
                 batch_result, similarity>>
  /\ UNCHANGED <<now, dbVars, queue, invokes, workerVars, apiVars, applierVars, queryVars, applyVars>>

\* the patches handed to validate_patch: the generated one, the same with
\* another replacement_text, and the one generate_patch makes of false, false
PatchInputs ==
  LET patch == generate_patch(JStr(original_text), JStr(replacement_text))
  IN {[patch EXCEPT !.replacement_text = JStr(t)] : t \in Texts}
       \cup {generate_patch(JFalse, JFalse)}

\* validate_patch(patch)
ValidatePatch ==
  /\ validated = Null
  /\ \E patch \in PatchInputs :
       validated' = Some([patch |-> patch, is_valid |-> validate_patch(patch)])
  /\ UNCHANGED <<original_text, replacement_text, patch_data, batch_result,
                 similarity, summary>>
  /\ UNCHANGED <<now, dbVars, queue, invokes, workerVars, apiVars, applierVars, queryVars, applyVars>>

Change(paragraph_id, o, r) ==
  [paragraph_id |-> paragraph_id, paragraph_index |-> paragraph_id,
   original_text |-> o, replacement_text |-> r, reasoning |-> ""]

\* the paragraph patches handed to validate_all_patches: the two the generator
\* makes of the texts, the first with its replacement_text altered, and the
\* one it makes of false, false
PatchCandidates ==
  LET made == generate_paragraph_patches(
                << Change(0, JStr(original_text), JStr(replacement_text)),
                   Change(1, JStr(replacement_text), JStr(original_text)),
                   Change(2, JFalse, JFalse) >>)
  IN {made[1], made[2], made[3],
      [made[1] EXCEPT !.replacement_text = JStr(<<"a">> \o replacement_text)]}

Batches == UNION {[1..n -> PatchCandidates] : n \in 0..MaxBatch}

\* validate_all_patches(patches)
ValidateAll ==
  /\ batch_result = Null
  /\ \E patches \in Batches :
       batch_result' = Some([patches |-> patches,
                            all_valid |-> validate_all_patches(patches)])
  /\ UNCHANGED <<original_text, replacement_text, patch_data, validated,
                 similarity, summary>>
  /\ UNCHANGED <<now, dbVars, queue, invokes, workerVars, apiVars, applierVars, queryVars, applyVars>>

PatchInit ==
  /\ now = 0
  /\ documents = {}
  /\ nextDocId = 1
  /\ jobs = <<>>
  /\ uncommitted = <<>>
  /\ nextJobId = 1
  /\ queue = <<>>
  /\ invokes = 0
  /\ pc = [w \in Workers |-> "idle"]
  /\ job_id = [w \in Workers |-> 0]
  /\ job = [w \in Workers |-> NoObject]
  /\ edits = [w \in Workers |-> <<>>]
  /\ exc = [w \in Workers |-> NoMessage]
  /\ rollback_needed = [w \in Workers |-> FALSE]
  /\ returned = [job_id |-> 0, result |-> "none"]
  /\ blobs = <<>>
  /\ versions = <<>>
  /\ response = NoResponse
  /\ stuck = Null
  /\ requests = [r \in Requests |-> NoRequest]
  /\ original_text \in Texts
  /\ replacement_text \in Texts
  /\ patch_data = NoPatchData
  /\ validated = Null
  /\ batch_result = Null
  /\ similarity = Null
  /\ summary = Null
  /\ ApplierIdle

\* ------------------------------------------------ the patch applier alone
\* the paragraphs of the documents handed to PatchApplier: a sole bold run, a
\* sole run that inherits everything from its style, two runs of which the
\* first is italic in a named font, and a paragraph without runs
Paragraphs ==
  { << [add_run(<<"a">>) EXCEPT !.bold = True] >>,
    << add_run(<<"b">>) >>,
    << [add_run(<<"a">>) EXCEPT !.italic = True, !.font_name = "Arial",
                                !.font_size = "Pt(12)"],
       [add_run(<<"b">>) EXCEPT !.underline = True] >>,
    << >> }

Documents == [1..NumParagraphs -> Paragraphs]

\* the paragraph ids and texts a call is made with
PatchIds == (0 - (NumParagraphs + 1))..(NumParagraphs + 1)
NewTexts == {<<>>, <<"b">>}

\* the patches handed to apply_paragraph_patches: a new text for the first
\* paragraph, the empty text for the last one, and a new text for the first
\* id beyond them
AppliedPatches ==
  {[paragraph_id |-> 0, replacement_text |-> JStr(<<"b">>)],
   [paragraph_id |-> NumParagraphs - 1, replacement_text |-> JStr(<<>>)],
   [paragraph_id |-> NumParagraphs, replacement_text |-> JStr(<<"b">>)]}

AppliedBatches == UNION {[1..n -> AppliedPatches] : n \in 0..MaxBatch}

Called(name, args, result) ==
  /\ call' = [name |-> name, args |-> args, returned |-> Some(result)]
  /\ calls' = calls + 1
  /\ UNCHANGED <<now, dbVars, queue, invokes, workerVars, apiVars, engineVars, queryVars, applyVars>>

\* self._apply_single_paragraph_patch(paragraph_id, new_text, author): the
\* caller gets the success flag
ApplySingle(paragraph_id, new_text) ==
  /\ calls < MaxCalls
  /\ LET r == apply_single_paragraph_patch(self_document, paragraph_id, new_text)
     IN /\ self_document' = r.document
        /\ Called("_apply_single_paragraph_patch", <<paragraph_id, new_text>>,
                  [success |-> r.success])

\* self.apply_simple_replacement(paragraph_id, new_text)
ApplySimple(paragraph_id, new_text) ==
  /\ calls < MaxCalls
  /\ LET r == apply_simple_replacement(self_document, paragraph_id, new_text)
     IN /\ self_document' = r.document
        /\ Called("apply_simple_replacement", <<paragraph_id, new_text>>,
                  [success |-> r.success])

\* self.apply_paragraph_patches(patches, author): the caller gets the bytes of
\* the saved document and nothing else
ApplyBatch(patches) ==
  /\ calls < MaxCalls
  /\ self_document' = apply_paragraph_patches(self_document, patches)
  /\ Called("apply_paragraph_patches", <<patches>>,
            [bytes |-> apply_paragraph_patches(self_document, patches)])

ApplierInit ==
  /\ now = 0
  /\ documents = {}
  /\ nextDocId = 1
  /\ jobs = <<>>
  /\ uncommitted = <<>>
  /\ nextJobId = 1
  /\ queue = <<>>
  /\ invokes = 0
  /\ pc = [w \in Workers |-> "idle"]
  /\ job_id = [w \in Workers |-> 0]
  /\ job = [w \in Workers |-> NoObject]
  /\ edits = [w \in Workers |-> <<>>]
  /\ exc = [w \in Workers |-> NoMessage]
  /\ rollback_needed = [w \in Workers |-> FALSE]
  /\ returned = [job_id |-> 0, result |-> "none"]
  /\ blobs = <<>>
  /\ versions = <<>>
  /\ response = NoResponse
  /\ stuck = Null
  /\ requests = [r \in Requests |-> NoRequest]
  /\ EngineIdle
  /\ self_document \in Documents
  /\ call = NoCall
  /\ calls = 0

ApplierNext ==
  \/ \E paragraph_id \in PatchIds, new_text \in NewTexts :
       ApplySingle(paragraph_id, new_text)
  \/ \E paragraph_id \in PatchIds, new_text \in NewTexts :
       ApplySimple(paragraph_id, new_text)
  \/ \E patches \in AppliedBatches : ApplyBatch(patches)

ApplierSpec == ApplierInit /\ [][ApplierNext]_vars

PatchNext ==
  \/ GeneratePatch
  \/ ValidatePatch
  \/ ValidateAll
  \/ CalculateSimilarity
  \/ GetChangeSummary

PatchSpec == PatchInit /\ [][PatchNext]_vars

\* ------------------------------------------------------------ properties
\* the row of the job a task works on, before and after a step
Row(w) == jobs[job_id[w]]
RowAfter(w) == jobs'[job_id[w]]
HasRow(w) == job_id[w] \in DOMAIN jobs

\* a task is past its transition to Processing
Driving(w) ==
  pc[w] \in {"get_document", "document_missing", "download", "no_edits",
             "validation_failed", "save_patch"}

\* C1: the only status changes of a job are Pending -> Processing,
\* Processing -> Completed and Processing -> Failed.
C1_OnlyLegalTransitions ==
  [][\A j \in DOMAIN jobs \cap DOMAIN jobs' :
       jobs'[j].status # jobs[j].status =>
         <<jobs[j].status, jobs'[j].status>> \in
           {<<PENDING, PROCESSING>>, <<PROCESSING, COMPLETED>>, <<PROCESSING, FAILED>>}]_vars

\* C2: a task that loaded a Completed or Failed job changes nothing in the
\* table and returns without fetching the document.
C2_TerminalRunIsNoOp ==
  [][\A w \in Workers :
       (pc[w] = "update_processing" /\ job[w].status \in Terminal /\ pc'[w] # pc[w])
         => (jobs' = jobs /\ pc'[w] \in {"idle", "except"})]_vars

\* C3: no two tasks are past the transition to Processing for the same job at
\* the same time.
C3_SingleDriver ==
  \A w1, w2 \in Workers :
    (w1 # w2 /\ Driving(w1) /\ Driving(w2)) => job_id[w1] # job_id[w2]

\* C4: when the handler of a task that had entered Processing returns, the job
\* is Failed and its error is the message of the exception.
C4_HandlerMarksFailed ==
  [][\A w \in Workers :
       (pc[w] = "except" /\ pc'[w] = "idle" /\ HasRow(w) /\ job[w].status = PROCESSING)
         => (RowAfter(w).status = FAILED /\ RowAfter(w).error_message = Some(exc[w]))]_vars

\* C5: a job in Processing eventually is Completed or Failed (or is deleted
\* with its document).
C5_ProcessingEnds ==
  \A j \in JobIds :
    [](j \in DOMAIN jobs /\ jobs[j].status = PROCESSING
         => <>(j \notin DOMAIN jobs \/ jobs[j].status \in Terminal))

C7_NoEditsStoresEmptyPatchSet ==
  [][\A w \in Workers :
       (pc[w] = "no_edits" /\ pc'[w] = "idle" /\ HasRow(w))
         => (RowAfter(w).status = COMPLETED /\ RowAfter(w).patch_json = Some(<<>>))]_vars

\* C8 as claimed: the step taken when the document is missing leaves the job
\* Failed with the error 'Document not found'.
C8_MissingDocumentMarksFailed ==
  [][\A w \in Workers :
       (pc[w] = "document_missing" /\ pc'[w] = "idle")
         => /\ job_id[w] \in DOMAIN jobs'
            /\ RowAfter(w).status = FAILED
            /\ RowAfter(w).error_message = Some("Document not found")]_vars

\* C8 as amended: when the document is missing the job's row is gone with it,
\* the write of Failed changes nothing, and the task returns 'Document not
\* found' without downloading, calling the agent or saving a patch set.
C8_MissingDocumentStops ==
  [][\A w \in Workers :
       (pc[w] = "document_missing" /\ pc'[w] # pc[w])
         => /\ ~HasRow(w)
            /\ jobs' = jobs
            /\ pc'[w] \in {"idle", "except"}
            /\ (pc'[w] = "idle" =>
                  returned' = [job_id |-> job_id[w], result |-> "Document not found"])]_vars

C8_Witness == returned.result = "Document not found"

C10_UnknownJobChangesNothing ==
  [][\A w \in Workers :
       (pc[w] = "get_job" /\ ~HasRow(w) /\ pc'[w] \notin {"get_job", "except"})
         => /\ pc'[w] = "idle"
            /\ returned' = [job_id |-> job_id[w], result |-> "Job not found"]
            /\ jobs' = jobs
            /\ uncommitted' = uncommitted
            /\ documents' = documents]_vars

C10_Witness ==
  /\ returned.result = "Job not found"
  /\ returned.job_id \notin DOMAIN jobs
  /\ DOMAIN jobs # {}

\* C11: a preview or an apply of a job that is Pending, Processing or Failed
\* answers 400 and changes no blob, no version row and no job; only a request
\* for a Completed job is answered with 200.
C11_OnlyCompletedIsServed ==
  [][\A j \in DOMAIN jobs :
       (get_patch_preview(j) \/ apply_patch(j)) =>
         /\ jobs[j].status # COMPLETED =>
              /\ response'.status_code = 400
              /\ response'.patches = Null /\ response'.version_number = Null
              /\ blobs' = blobs /\ versions' = versions /\ jobs' = jobs
              /\ documents' = documents
         /\ response'.status_code = 200 => jobs[j].status = COMPLETED]_vars

C11_Witness ==
  /\ response.route = "apply"
  /\ response.status_code = 400
  /\ response.job_id \in DOMAIN jobs
  /\ jobs[response.job_id].status = FAILED
  /\ jobs[response.job_id].patch_json # Null

\* C12: an apply that succeeds stores, as the new version, the job's patches
\* applied to the document's latest version as it stood before the apply.
C12_BaseIsLatestVersion ==
  [][\A j \in DOMAIN jobs :
       (apply_patch(j) /\ response'.status_code = 200) =>
         LET d == jobs[j].document_id
             base == blobs[get_latest_version(d).blob_path]
         IN blobs'[blob_name(d, response'.version_number[1])] =
              apply_patches_to_document(base, jobs[j].patch_json[1])]_vars


\* the texts of the operations of the given types, joined in order
RECURSIVE JoinTexts(_, _)
JoinTexts(ops, types) ==
  IF ops = <<>> THEN <<>>
  ELSE (IF ops[1].type \in types THEN ops[1].text ELSE <<>>)
       \o JoinTexts(Tail(ops), types)

\* C13: for every pair of strings the operations generate_patch returns
\* rebuild both texts: the equal and insert texts joined in order are the
\* replacement, the equal and delete texts joined in order are the original.
C13_PatchRoundTrips ==
  patch_data # NoPatchData =>
    /\ JoinTexts(patch_data.operations, {"equal", "insert"}) = replacement_text
    /\ JoinTexts(patch_data.operations, {"equal", "delete"}) = original_text

C13_Witness ==
  /\ patch_data # NoPatchData
  /\ \A ty \in {"equal", "insert", "delete"} :
       \E i \in 1..Len(patch_data.operations) : patch_data.operations[i].type = ty

\* one operation of the given type spanning the whole of text
Whole(type, text) ==
  << [type |-> type, text |-> text, position |-> 0, length |-> Len(text)] >>

\* C14: generate_patch on degenerate inputs: identical non-empty strings give
\* exactly one equal operation covering the string and has_changes false; an
\* empty original gives exactly one insert; an empty replacement gives exactly
\* one delete; two empty strings give no operation.
C14_DegenerateShapes ==
  patch_data # NoPatchData =>
    /\ (original_text = replacement_text /\ original_text # <<>>) =>
         /\ patch_data.operations = Whole("equal", original_text)
         /\ ~patch_data.has_changes
    /\ (original_text = <<>> /\ replacement_text # <<>>) =>
         patch_data.operations = Whole("insert", replacement_text)
    /\ (original_text # <<>> /\ replacement_text = <<>>) =>
         patch_data.operations = Whole("delete", original_text)
    /\ (original_text = <<>> /\ replacement_text = <<>>) =>
         patch_data.operations = <<>>

C14_Witness ==
  /\ patch_data # NoPatchData
  /\ original_text = replacement_text
  /\ Len(original_text) = MaxLen
  /\ Len(patch_data.operations) = 1

\* C15: validate_patch is true exactly when the equal and insert texts of
\* the patch, joined in order, are its replacement_text; validate_all_patches
\* is true exactly when every patch of the batch is valid, so one invalid
\* patch makes the batch invalid and the empty batch is valid.
C15_ValidationReplaysThePatch ==
  /\ validated # Null =>
       (validated[1].is_valid <=>
          JStr(JoinTexts(validated[1].patch.operations, {"equal", "insert"}))
            = validated[1].patch.replacement_text)
  /\ batch_result # Null =>
       LET patches == batch_result[1].patches
       IN batch_result[1].all_valid <=>
            \A i \in 1..Len(patches) :
              JStr(JoinTexts(patches[i].operations, {"equal", "insert"}))
                = patches[i].replacement_text

C15_Witness ==
  /\ validated # Null /\ batch_result # Null
  /\ ~validated[1].is_valid
  /\ validated[1].patch.replacement_text.ty = "str"
  /\ Len(batch_result[1].patches) = 2
  /\ validate_patch(batch_result[1].patches[1])
  /\ ~validate_patch(batch_result[1].patches[2])
  /\ ~batch_result[1].all_valid

\* the step is a call of _apply_single_paragraph_patch
SingleApplied ==
  calls' = calls + 1 /\ call'.name = "_apply_single_paragraph_patch"

\* a run property read as a boolean, the way _extract_run_formatting reads
\* it: on only when it is set to True on the run itself
IsOn(v) == v = True

\* C16: a tracked-change apply to an in-range paragraph leaves as the
\* paragraph's runs a struck-through run in the deletion colour with the
\* original text, if that is non-empty, then an underlined run in the
\* insertion colour with the replacement text, if that is non-empty, and no
\* other run; both have the bold, italic and font of the first run the
\* paragraph had before, bold and italic being read as booleans.
C16_TrackedChangeRuns ==
  [][(SingleApplied /\ call'.args[1] \in 0..(Len(self_document) - 1)) =>
       LET before == self_document[call'.args[1] + 1]
           after == self_document'[call'.args[1] + 1]
           original == paragraph_text(before)
           new_text == call'.args[2]
           d == IF original # <<>> THEN 1 ELSE 0
           i == IF new_text # <<>> THEN 1 ELSE 0
       IN /\ call'.returned[1].success
          /\ Len(after) = d + i
          /\ d = 1 => /\ after[1].text = original
                      /\ after[1].strike = True /\ after[1].color = RED
          /\ i = 1 => /\ after[d + 1].text = new_text
                      /\ after[d + 1].underline = True /\ after[d + 1].color = GREEN
          /\ before # <<>> =>
               \A k \in 1..Len(after) :
                 /\ IsOn(after[k].bold) = IsOn(before[1].bold)
                 /\ IsOn(after[k].italic) = IsOn(before[1].italic)
                 /\ after[k].font_name = before[1].font_name
                 /\ after[k].font_size = before[1].font_size]_vars

C16_Witness ==
  /\ call.name = "_apply_single_paragraph_patch"
  /\ \E p \in 1..Len(self_document) :
       /\ Len(self_document[p]) = 2
       /\ self_document[p][1].text = <<"a">> /\ self_document[p][1].strike = True
       /\ self_document[p][2].text = <<"b">> /\ self_document[p][2].underline = True
       /\ self_document[p][1].bold = True /\ self_document[p][2].bold = True

\* C17: an apply whose paragraph_id is not one of 0..n-1, n the number of
\* paragraphs, reports failure and leaves every paragraph as it was.
C17_OutOfRangeFails ==
  [][(/\ calls' = calls + 1
      /\ call'.name \in {"_apply_single_paragraph_patch", "apply_simple_replacement"}
      /\ call'.args[1] \notin 0..(Len(self_document) - 1)) =>
       /\ ~call'.returned[1].success
       /\ self_document' = self_document]_vars

\* C18: apply_paragraph_patches goes on after a patch that fails, so every
\* patch of an existing paragraph is applied, and what the caller receives
\* holds the count of applied patches and the ids of the failed paragraphs
\* besides the document.
C18_CallerGetsTheTally ==
  [][(calls' = calls + 1 /\ call'.name = "apply_paragraph_patches") =>
       LET patches == call'.args[1]
           n == Len(self_document)
           InRange(j) == patches[j].paragraph_id \in 0..(n - 1)
           Last(j) == \A k \in (j + 1)..Len(patches) :
                        patches[k].paragraph_id # patches[j].paragraph_id
       IN /\ \A j \in 1..Len(patches) :
               (InRange(j) /\ Last(j) /\ patches[j].replacement_text.s # <<>>) =>
                 LET after == self_document'[patches[j].paragraph_id + 1]
                 IN /\ after[Len(after)].text = patches[j].replacement_text.s
                    /\ after[Len(after)].color = GREEN
          /\ call'.returned[1].bytes = self_document'
          /\ "applied_count" \in DOMAIN call'.returned[1]
          /\ "failed_paragraph_ids" \in DOMAIN call'.returned[1]]_vars

\* the entries of an answer whose paragraph_id is the id of a paragraph
InSnapshot(e) == e.paragraph_id \in 0..(NumParagraphs - 1)

\* C19: an entry of the oracle's answer whose paragraph_id is no paragraph of
\* the snapshot is dropped before the patches are built: the task goes on as
\* it would on the answer without that entry, so the entry alone fails
\* nothing, and no patch the task stores is a patch of such an id.
C19_ForeignEditsAreDropped ==
  [][\A w \in Workers :
       /\ \A raw \in OracleAnswers :
            (pc[w] = "download" /\ AfterPatches(w, validate_edits(raw))) =>
              /\ AfterPatches(w, validate_edits(SelectSeq(raw, InSnapshot)))
              /\ \A i \in 1..Len(edits'[w]) : InSnapshot(edits'[w][i])
       /\ (pc[w] = "save_patch" /\ pc'[w] = "idle" /\ HasRow(w)
             /\ RowAfter(w).patch_json # Row(w).patch_json) =>
            \A i \in 1..Len(RowAfter(w).patch_json[1]) :
              InSnapshot(RowAfter(w).patch_json[1][i])]_vars

C19_Witness ==
  /\ \E j \in DOMAIN jobs :
       /\ jobs[j].status = COMPLETED
       /\ jobs[j].patch_json =
            Some(generate_paragraph_patches(validate_edits(<<E2>>)))
  /\ returned.result = "completed"
\* C20: once a job has a stored patch set, no later step of a run of that job
\* changes or replaces it.
C20_PatchSetIsWrittenOnce ==
  [][\A j \in DOMAIN jobs \cap DOMAIN jobs' :
       jobs[j].patch_json # Null => jobs'[j].patch_json = jobs[j].patch_json]_vars
\* a job is Processing and no task holds it or waits for it in the broker
Abandoned(j) ==
  /\ jobs[j].status = PROCESSING
  /\ \A w \in Workers : job_id[w] # j
  /\ \A i \in 1..Len(queue) : queue[i] # j

\* C21: get_stuck_jobs(T) returns exactly the jobs that are Processing and
\* started before now - T and changes no row; and a Processing job that no
\* task holds and no message waits for stays Processing as long as its row
\* exists, whatever else runs.
C21_StuckJobsAreOnlyListed ==
  [][/\ \A T \in 0..MaxTime :
          get_stuck_jobs(T) =>
            /\ \A j \in DOMAIN jobs :
                 j \in stuck'[1] <=>
                   /\ jobs[j].status = PROCESSING
                   /\ \E t \in 0..MaxTime : jobs[j].started_at = Some(t) /\ t + T < now
            /\ stuck'[1] \subseteq DOMAIN jobs
            /\ jobs' = jobs
     /\ \A j \in DOMAIN jobs \cap DOMAIN jobs' :
          Abandoned(j) => jobs'[j].status = PROCESSING]_vars

C21_Witness ==
  /\ stuck # Null
  /\ \E j \in stuck[1] : j \in DOMAIN jobs /\ Abandoned(j)
\* the characters the patch of the two texts keeps
KeptChars == SumLen(generate_patch(JStr(original_text),
                                   JStr(replacement_text)).operations, "equal")

\* C22: calculate_similarity(a, b) is the number of characters in equal
\* operations divided by max(len a, len b); the numerator never exceeds the
\* denominator, so the score is in [0, 1]; it is 1.0 when both texts are
\* empty.
C22_SimilarityIsAShare ==
  similarity # Null =>
    LET total == Max(Len(original_text), Len(replacement_text))
    IN IF total = 0 THEN FloatEq(similarity[1], Ratio(1, 1))
       ELSE /\ similarity[1].den > 0
            /\ FloatEq(similarity[1], Ratio(KeptChars, total))
            /\ 0 <= similarity[1].num
            /\ similarity[1].num <= similarity[1].den

C22_Witness ==
  /\ similarity # Null
  /\ original_text # <<>> /\ replacement_text # <<>>
  /\ 0 < similarity[1].num
  /\ similarity[1].num < similarity[1].den
\* C23: has_changes of a generated patch is true exactly when one of its
\* operations is not an equal one, which is exactly when original_text and
\* replacement_text differ.
C23_HasChangesMeansTheTextsDiffer ==
  patch_data # NoPatchData =>
    /\ patch_data.has_changes <=>
         \E i \in 1..Len(patch_data.operations) :
           patch_data.operations[i].type # "equal"
    /\ patch_data.has_changes <=> original_text # replacement_text

C23_Witness ==
  /\ patch_data # NoPatchData
  /\ patch_data.has_changes
  /\ original_text # replacement_text
  /\ \E i \in 1..Len(patch_data.operations) : patch_data.operations[i].type = "equal"

\* the characters of the texts of the operations of one type
RECURSIVE TextChars(_, _)
TextChars(ops, ty) ==
  IF ops = <<>> THEN 0
  ELSE (IF ops[1].type = ty THEN Len(ops[1].text) ELSE 0) + TextChars(Tail(ops), ty)

\* C24: the change summary of a generated patch is consistent: insertions +
\* deletions + equal = total_operations = the number of operations;
\* chars_inserted and chars_deleted are the summed lengths of the insert and
\* delete texts; and len(replacement_text) - len(original_text) =
\* chars_inserted - chars_deleted.
C24_SummaryAddsUp ==
  summary # Null =>
    LET s == summary[1]
        ops == patch_data.operations
    IN /\ s.insertions + s.deletions + s.equal = s.total_operations
       /\ s.total_operations = Len(ops)
       /\ s.total_operations = patch_data.total_operations
       /\ s.chars_inserted = TextChars(ops, "insert")
       /\ s.chars_deleted = TextChars(ops, "delete")
       /\ Len(replacement_text) - Len(original_text)
            = s.chars_inserted - s.chars_deleted

C24_Witness ==
  /\ summary # Null
  /\ summary[1].insertions > 0
  /\ summary[1].deletions > 0
  /\ summary[1].chars_inserted > summary[1].insertions
  /\ Len(replacement_text) > Len(original_text)

\* the running position before operation i: the lengths of the equal and
\* delete texts before it
RECURSIVE Offset(_, _)
Offset(ops, i) ==
  IF i <= 1 THEN 0
  ELSE Offset(ops, i - 1)
       + (IF ops[i - 1].type \in {"equal", "delete"} THEN Len(ops[i - 1].text) ELSE 0)

\* C25: in a generated patch every operation's length is the length of its
\* text and its position is the summed length of the equal and delete
\* operations before it; an equal or delete operation's text is the slice of
\* original_text at [position, position + length); and the running offset
\* after the last operation is len(original_text).
C25_PositionsIndexTheOriginal ==
  patch_data # NoPatchData =>
    LET ops == patch_data.operations
    IN /\ \A i \in 1..Len(ops) :
            /\ ops[i].length = Len(ops[i].text)
            /\ ops[i].position = Offset(ops, i)
            /\ ops[i].type \in {"equal", "delete"} =>
                 SubSeq(original_text, ops[i].position + 1,
                        ops[i].position + ops[i].length) = ops[i].text
       /\ Offset(ops, Len(ops) + 1) = Len(original_text)

C25_Witness ==
  /\ patch_data # NoPatchData
  /\ \E i, j \in 1..Len(patch_data.operations) :
       /\ i < j
       /\ patch_data.operations[i].type = "insert"
       /\ patch_data.operations[j].type \in {"equal", "delete"}
       /\ patch_data.operations[j].position > 0
\* C26: the task for job j never runs while the row of job j is not yet
\* visible in the database: no task reads a job whose submit has not
\* committed, so no submitted job is answered 'Job not found' and left
\* Pending.
C26_TaskSeesTheSubmittedJob ==
  [][\A w \in Workers :
       (pc[w] = "get_job" /\ pc'[w] # "get_job")
         => job_id[w] \notin DOMAIN uncommitted]_vars

\* C27: in every reachable state a job whose patch_json is not null is
\* Completed.
C27_PatchSetOnlyOnCompleted ==
  \A j \in DOMAIN jobs :
    jobs[j].patch_json # Null => jobs[j].status = COMPLETED
\* C28: every Completed job can be previewed: the preview of a Completed job
\* answers 200 with the job's patch set, and for a job that completed with
\* zero edits the patch set it shows is the empty one.
C28_CompletedIsPreviewable ==
  [][\A j \in DOMAIN jobs :
       (get_patch_preview(j) /\ jobs[j].status = COMPLETED) =>
         /\ response'.status_code = 200
         /\ response'.patches =
              (IF jobs[j].patch_json = Null THEN Some(<<>>) ELSE jobs[j].patch_json)]_vars
\* the step is a call of apply_paragraph_patches
BatchApplied ==
  calls' = calls + 1 /\ call'.name = "apply_paragraph_patches"

\* C29: after apply_paragraph_patches every paragraph a patch of the batch
\* targets holds at most two runs, its deleted run carries the text the
\* paragraph had before the batch and its inserted run carries the
\* replacement_text of a patch for that paragraph; also when two patches of
\* the batch target the same paragraph_id.
C29_BatchLeavesOneTrackedChange ==
  [][BatchApplied =>
       \A k \in 1..Len(call'.args[1]) :
         LET id == call'.args[1][k].paragraph_id
         IN id \in 0..(Len(self_document) - 1) =>
              LET before == self_document[id + 1]
                  after == self_document'[id + 1]
              IN /\ Len(after) <= 2
                 /\ \A n \in 1..Len(after) :
                      /\ after[n].color = RED =>
                           after[n].text = paragraph_text(before)
                      /\ after[n].color = GREEN =>
                           \E m \in 1..Len(call'.args[1]) :
                             /\ call'.args[1][m].paragraph_id = id
                             /\ call'.args[1][m].replacement_text.s = after[n].text]_vars
\* C30: the version numbers of one document are unique and grow by one with
\* every successful apply, under any interleaving of requests: two applies
\* that run side by side never create two versions with the same number and
\* never overwrite a document that was stored before.
C30_VersionsAreUniqueAndKept ==
  [][/\ \A i, k \in 1..Len(versions') :
          (i # k /\ versions'[i].document_id = versions'[k].document_id)
            => versions'[i].version_number # versions'[k].version_number
     /\ \A b \in DOMAIN blobs : b \in DOMAIN blobs' /\ blobs'[b] = blobs[b]
     /\ \A r \in Requests :
          (apply_patch_create(r) /\ response'.status_code = 200) =>
            response'.version_number =
              Some(get_next_version_number(requests[r].document_id))]_vars
====
